---- MODULE Spec2Model ----
(***************************************************************************)
(* A model of fastzip: the concurrent Archiver (archiver.go), the          *)
(* three-phase Extractor (extractor.go) and the helpers they share         *)
(* (countWriter, incOnSuccess, the file pool).                              *)
(*                                                                         *)
(* Paths are sequences of components; where the code compares paths as     *)
(* strings (sort.Strings, strings.HasPrefix) the components are spelled    *)
(* out as characters, so that "/cc" has the string prefix "/c".            *)
(***************************************************************************)
EXTENDS Integers, Sequences, FiniteSets, TLC

(***************************************************************************)
(* Bounds of the model.                                                    *)
(***************************************************************************)
\* the largest number of keys in the mapping handed to Archive
MaxFiles == 3
\* the largest archiver / extractor concurrency option
MaxConcurrency == 2
\* the largest number of entries of a hand-made archive given to Extract
MaxEntries == 3
\* the symlink hops one path resolution follows before ELOOP
MaxHops == 3

\* filepool.File on its own: the largest in-memory prefix, the longest
\* single write, the most bytes one holder writes, the most it hashes, and
\* the longest slice it reads into
MaxPrefix == 2
MaxWrite == 2
MaxData == 3
MaxHash == 2
MaxRead == 3

\* the largest pool a test makes on its own
MaxPool == 2

(***************************************************************************)
(* Strings.                                                                *)
(***************************************************************************)
\* the characters of a path component
CharsOf(n) ==
  CASE n = "cc" -> <<"c", "c">>
    [] n = ".." -> <<".", ".">>
    [] n = "root" -> <<"r">>
    [] n = "inner" -> <<"i">>
    [] n = "vuln" -> <<"v">>
    [] OTHER -> <<n>>

\* byte order of the characters that occur ('.' < '/' < letters)
CharCode(ch) ==
  CASE ch = "." -> 46
    [] ch = "/" -> 47
    [] ch = "a" -> 97
    [] ch = "b" -> 98
    [] ch = "c" -> 99
    [] ch = "d" -> 100
    [] ch = "e" -> 101
    [] ch = "f" -> 102
    [] ch = "g" -> 103
    [] ch = "i" -> 105
    [] ch = "l" -> 108
    [] ch = "p" -> 112
    [] ch = "r" -> 114
    [] ch = "u" -> 117
    [] ch = "v" -> 118
    [] ch = "x" -> 120
    [] OTHER -> 122

RECURSIVE PathString(_)
\* an absolute path as the string the code sees: "/" before every component
PathString(comps) ==
  IF comps = <<>> THEN <<>>
  ELSE <<"/">> \o CharsOf(Head(comps)) \o PathString(Tail(comps))

\* strings.HasPrefix
HasPrefix(s, prefix) ==
  /\ Len(prefix) <= Len(s)
  /\ SubSeq(s, 1, Len(prefix)) = prefix

RECURSIVE StringLess(_, _)
\* s < t in the byte-wise order sort.Strings uses
StringLess(s, t) ==
  IF t = <<>> THEN FALSE
  ELSE IF s = <<>> THEN TRUE
  ELSE IF Head(s) # Head(t) THEN CharCode(Head(s)) < CharCode(Head(t))
  ELSE StringLess(Tail(s), Tail(t))

RECURSIVE Clean(_)
\* filepath.Clean on an absolute path: "." is dropped, ".." removes the
\* component before it
Clean(comps) ==
  IF comps = <<>> THEN <<>>
  ELSE LET init == Clean(SubSeq(comps, 1, Len(comps) - 1))
           last == comps[Len(comps)]
       IN IF last = ".."
          THEN (IF init = <<>> THEN <<>> ELSE SubSeq(init, 1, Len(init) - 1))
          ELSE IF last = "." THEN init
          ELSE Append(init, last)

\* filepath.Abs of a path that is already absolute
Abs(comps) == Clean(comps)

\* p is base or lies below it, component by component
IsWithin(base, p) ==
  /\ Len(base) <= Len(p)
  /\ SubSeq(p, 1, Len(base)) = base

RECURSIVE CommonLen(_, _)
CommonLen(p, q) ==
  IF p = <<>> \/ q = <<>> \/ Head(p) # Head(q) THEN 0
  ELSE 1 + CommonLen(Tail(p), Tail(q))

\* filepath.Rel(base, target) of two clean absolute paths
Rel(base, target) ==
  LET k == CommonLen(base, target)
      ups == [j \in 1..(Len(base) - k) |-> ".."]
      rest == SubSeq(target, k + 1, Len(target))
  IN IF ups \o rest = <<>> THEN <<".">> ELSE ups \o rest

(***************************************************************************)
(* The files an Archive call can be handed: the mapping's key is an        *)
(* absolute path, its value the os.FileInfo of that path.                  *)
(***************************************************************************)
\* zip.Store and zip.Deflate, the method ids the code names
Store == 0
Deflate == 8

\* filepool.defaultBufferSize
DefaultBufferSize == 2 * 1024 * 1024

\* the archiver's and the extractor's chroot, an absolute path
Chroot == <<"c">>

NoFile ==
  [type |-> "none", perm |-> 0, mtime |-> 0, size |-> 0, zsize |-> 0,
   content |-> "", link |-> <<>>, readable |-> FALSE]

\* the os.FileInfo (and what reading it yields) of every path of the model:
\* size is the payload in Write-sized blocks, zsize what deflate makes of it,
\* mtime is in half seconds
SourceFile(key) ==
  CASE key = <<"c">> ->
         [NoFile EXCEPT !.type = "dir", !.perm = 7, !.mtime = 3]
    [] key = <<"c", "a">> ->
         [NoFile EXCEPT !.type = "dir", !.perm = 5, !.mtime = 5]
    [] key = <<"c", "a", "f">> ->
         [NoFile EXCEPT !.type = "reg", !.perm = 6, !.mtime = 7, !.size = 2,
                        !.zsize = 1, !.content = "F", !.readable = TRUE]
    [] key = <<"c", "b">> ->
         [NoFile EXCEPT !.type = "reg", !.perm = 4, !.mtime = 8, !.size = 1,
                        !.zsize = 2, !.content = "B", !.readable = TRUE]
    [] key = <<"c", "e">> ->
         [NoFile EXCEPT !.type = "reg", !.perm = 6, !.mtime = 9,
                        !.readable = TRUE]
    [] key = <<"c", "l">> ->
         [NoFile EXCEPT !.type = "sym", !.perm = 7, !.mtime = 11, !.size = 1,
                        !.link = <<"a", "f">>]
    [] key = <<"c", "p">> ->
         [NoFile EXCEPT !.type = "irregular", !.perm = 6, !.mtime = 2]
    [] key = <<"c", "u">> ->
         [NoFile EXCEPT !.type = "reg", !.perm = 2, !.mtime = 4, !.size = 1,
                        !.zsize = 1, !.content = "U"]
    [] key = <<"c", "..", "c", "g">> ->
         [NoFile EXCEPT !.type = "reg", !.perm = 6, !.mtime = 6, !.size = 1,
                        !.zsize = 1, !.content = "G", !.readable = TRUE]
    [] key = <<"cc", "x">> ->
         [NoFile EXCEPT !.type = "reg", !.perm = 6, !.mtime = 10, !.size = 1,
                        !.zsize = 1, !.content = "X", !.readable = TRUE]
    [] key = <<"d">> ->
         [NoFile EXCEPT !.type = "reg", !.perm = 6, !.mtime = 12, !.size = 1,
                        !.zsize = 1, !.content = "D", !.readable = TRUE]
    [] OTHER -> NoFile

\* the keys a caller's mapping is drawn from
SourceKeys ==
  { <<"c">>, <<"c", "a">>, <<"c", "a", "f">>, <<"c", "b">>, <<"c", "e">>,
    <<"c", "l">>, <<"c", "p">>, <<"c", "u">>, <<"c", "..", "c", "g">>,
    <<"cc", "x">>, <<"d">> }

\* a mode test that finds nothing irregular
NothingIrregular(fi) == FALSE

\* irregularModes: socket, device, char device, named pipe
IsIrregular(fi) == fi.type = "irregular"

\* the keys in the order the map happens to yield them: no sort
UnsortedKeys(S) ==
  LET RECURSIVE Desc(_)
      Desc(T) ==
        IF T = {} THEN <<>>
        ELSE LET mx == CHOOSE k \in T :
                         \A o \in T \ {k} : StringLess(PathString(o), PathString(k))
             IN <<mx>> \o Desc(T \ {mx})
  IN Desc(S)

RECURSIVE SortedKeys(_)
\* sort.Strings over the keys of the mapping
SortedKeys(S) ==
  IF S = {} THEN <<>>
  ELSE LET mn == CHOOSE k \in S :
                   \A o \in S \ {k} : StringLess(PathString(k), PathString(o))
       IN <<mn>> \o SortedKeys(S \ {mn})

\* what the zip stores of a modification time: whole seconds
ZipTime(t) == (t \div 2) * 2

\* the zero zip.FileHeader of hdrs := make([]zip.FileHeader, len(names))
ZeroHeader ==
  [name |-> <<>>, slash |-> FALSE, type |-> "none", perm |-> 0, modified |-> 0,
   method |-> Store, usize |-> 0, csize |-> 0, crc |-> <<>>, link |-> <<>>]

\* fileInfoHeader: name with forward slashes, size, mtime and mode of fi
FileInfoHeader(rel, fi) ==
  [ZeroHeader EXCEPT !.name = rel, !.slash = (fi.type = "dir"),
                     !.type = fi.type, !.perm = fi.perm,
                     !.modified = fi.mtime, !.usize = fi.size]

\* a compressor that never inflates
NeverInflates(method, fi) == IF method = Store THEN fi.size ELSE 0

\* what a compressor of the method makes of the payload of fi, in blocks
CompressedSize(method, fi) == IF method = Store THEN fi.size ELSE fi.zsize

(***************************************************************************)
(* The file system the extractor writes to: a map from locations (absolute *)
(* component sequences, symlinks resolved) to nodes.  The os calls are     *)
(* modelled by what the kernel does with them, symlinks included.  A call  *)
(* works on the disk it is handed as on one value: f \in {disk} has it      *)
(* evaluated once, however the caller came by it.                          *)
(***************************************************************************)
\* the time of a change made now; every stored mtime is earlier
Now == 100

\* the modes os.Mkdir(path, 0777) and os.OpenFile(..., 0666) ask for
DirPerm == 7
FilePerm == 6

Node(kind, perm) ==
  [kind |-> kind, perm |-> perm, mtime |-> Now, body |-> "", link |-> <<>>]

\* the extraction root exists and is empty
EmptyDisk == (<<>> :> Node("dir", DirPerm)) @@ (Chroot :> Node("dir", DirPerm))

Parent(loc) == IF loc = <<>> THEN <<>> ELSE SubSeq(loc, 1, Len(loc) - 1)

Exists(f, loc) == loc \in DOMAIN f

HasChildren(f, loc) ==
  \E o \in DOMAIN f : Len(o) = Len(loc) + 1 /\ SubSeq(o, 1, Len(loc)) = loc

\* a child is created or removed in the directory: its mtime is now
Touch(f, dir) == IF Exists(f, dir) THEN [f EXCEPT ![dir].mtime = Now] ELSE f

RECURSIVE Walk(_, _, _, _, _)
\* path resolution from cur = from: the location rest = todo names, or why it
\* names none;
\* a symlink in a leading component is followed, in the last one only with
\* follow; a last component that does not exist is named in its parent
Walk(f, from, todo, follow, hops) ==
  CHOOSE done \in {
      IF rest = <<>> THEN [err |-> "nil", loc |-> cur]
      ELSE LET c == Head(rest)
               tl == Tail(rest)
               nxt == Append(cur, c)
           IN IF c = ".." THEN Walk(f, Parent(cur), tl, follow, hops)
              ELSE IF c = "." THEN Walk(f, cur, tl, follow, hops)
              ELSE IF ~Exists(f, nxt)
              THEN (IF tl = <<>> THEN [err |-> "nil", loc |-> nxt]
                    ELSE [err |-> "enoent", loc |-> nxt])
              ELSE IF f[nxt].kind = "sym" /\ (tl # <<>> \/ follow)
              THEN (IF hops = 0 THEN [err |-> "eloop", loc |-> nxt]
                    ELSE Walk(f, cur, f[nxt].link \o tl, follow, hops - 1))
              ELSE IF tl # <<>> /\ f[nxt].kind # "dir"
              THEN [err |-> "enotdir", loc |-> nxt]
              ELSE Walk(f, nxt, tl, follow, hops)
    : cur \in {from}, rest \in {todo} } : TRUE

Resolve(f, path, follow) == Walk(f, <<>>, path, follow, MaxHops)

\* os.Mkdir(path, 0777)
Mkdir(disk, path) ==
  CHOOSE done \in {
      LET r == Resolve(f, path, FALSE)
      IN IF r.err # "nil" THEN [fs |-> f, err |-> r.err]
         ELSE IF Exists(f, r.loc) THEN [fs |-> f, err |-> "eexist"]
         ELSE [fs |-> Touch(f, Parent(r.loc)) @@ (r.loc :> Node("dir", DirPerm)),
               err |-> "nil"]
    : f \in {disk} } : TRUE

\* an os.MkdirAll that makes the last directory only
MkdirLast(disk, path) == Mkdir(disk, path)

RECURSIVE MkdirAll(_, _)
\* os.MkdirAll(path, 0777): nothing to do for a directory (seen through
\* symlinks), else the parent first and then the directory itself
MkdirAll(disk, path) ==
  CHOOSE done \in {
      LET r == Resolve(f, path, TRUE)
      IN IF r.err = "nil" /\ Exists(f, r.loc)
         THEN [fs |-> f, err |-> IF f[r.loc].kind = "dir" THEN "nil" ELSE "enotdir"]
         ELSE IF path = <<>> THEN [fs |-> f, err |-> "enoent"]
         ELSE LET p == MkdirAll(f, Parent(path))
              IN IF p.err # "nil" THEN p ELSE Mkdir(p.fs, path)
    : f \in {disk} } : TRUE

\* f without the node at loc
Without(f, loc) == [l \in DOMAIN f \ {loc} |-> f[l]]

\* os.Remove(path): unlink, or rmdir of an empty directory
Remove(disk, path) ==
  CHOOSE done \in {
      LET r == Resolve(f, path, FALSE)
      IN IF r.err # "nil" THEN [fs |-> f, err |-> r.err]
         ELSE IF ~Exists(f, r.loc) THEN [fs |-> f, err |-> "enoent"]
         ELSE IF f[r.loc].kind = "dir" /\ HasChildren(f, r.loc)
         THEN [fs |-> f, err |-> "enotempty"]
         ELSE [fs |-> Touch(Without(f, r.loc), Parent(r.loc)), err |-> "nil"]
    : f \in {disk} } : TRUE

\* os.IsNotExist(err)
IsNotExist(err) == err \in {"enoent", "enotdir"}

\* os.OpenFile(path, O_WRONLY|O_CREATE|O_TRUNC, 0666): through a symlink in
\* the last component too; loc is the file that was opened
OpenFile(disk, path) ==
  CHOOSE done \in {
      LET r == Resolve(f, path, TRUE)
      IN IF r.err # "nil" THEN [fs |-> f, err |-> r.err, loc |-> r.loc]
         ELSE IF ~Exists(f, r.loc)
         THEN [fs |-> Touch(f, Parent(r.loc)) @@ (r.loc :> Node("file", FilePerm)),
               err |-> "nil", loc |-> r.loc]
         ELSE IF f[r.loc].kind = "dir" THEN [fs |-> f, err |-> "eisdir", loc |-> r.loc]
         ELSE [fs |-> [f EXCEPT ![r.loc].body = "", ![r.loc].mtime = Now],
               err |-> "nil", loc |-> r.loc]
    : f \in {disk} } : TRUE

\* a write to the file opened at loc (the descriptor, whatever the path
\* names by now)
WriteAt(disk, loc, data) ==
  CHOOSE done \in {
      IF Exists(f, loc) /\ f[loc].kind = "file"
      THEN [f EXCEPT ![loc].body = data, ![loc].mtime = Now]
      ELSE f
    : f \in {disk} } : TRUE

\* os.Symlink(target, path)
Symlink(disk, target, path) ==
  CHOOSE done \in {
      LET r == Resolve(f, path, FALSE)
      IN IF r.err # "nil" THEN [fs |-> f, err |-> r.err]
         ELSE IF Exists(f, r.loc) THEN [fs |-> f, err |-> "eexist"]
         ELSE [fs |-> Touch(f, Parent(r.loc))
                        @@ (r.loc :> [Node("sym", DirPerm) EXCEPT !.link = target]),
               err |-> "nil"]
    : f \in {disk} } : TRUE

\* an lchtimes that sets nothing
KeepTimes(f, path, mtime) == [fs |-> f, err |-> "nil"]

\* lchtimes: unix.Lutimes, on the link itself
Lchtimes(disk, path, mtime) ==
  CHOOSE done \in {
      LET r == Resolve(f, path, FALSE)
      IN IF r.err # "nil" THEN [fs |-> f, err |-> r.err]
         ELSE IF ~Exists(f, r.loc) THEN [fs |-> f, err |-> "enoent"]
         ELSE [fs |-> [f EXCEPT ![r.loc].mtime = mtime], err |-> "nil"]
    : f \in {disk} } : TRUE

\* lchmod on linux: nothing for a symlink mode, else Fchmodat with no flag,
\* which follows a symlink at the path
Lchmod(disk, path, type, perm) ==
  CHOOSE done \in {
      IF type = "sym" THEN [fs |-> f, err |-> "nil"]
      ELSE LET r == Resolve(f, path, TRUE)
           IN IF r.err # "nil" THEN [fs |-> f, err |-> r.err]
              ELSE IF ~Exists(f, r.loc) THEN [fs |-> f, err |-> "enoent"]
              ELSE [fs |-> [f EXCEPT ![r.loc].perm = perm], err |-> "nil"]
    : f \in {disk} } : TRUE

(***************************************************************************)
(* State.                                                                  *)
(***************************************************************************)
VARIABLES
  files,      \* Archive's argument: the keys of the mapping
  aopt,       \* archiverOptions: concurrency, method, bufferSize
  names,      \* Archive: the sorted keys
  hdrs,       \* Archive: hdrs[i], the zip.FileHeader of names[i]
  apc,        \* where the thread that called Archive is
  ai,         \* Archive: the loop index i
  aerr,       \* Archive: the error the loop returns with
  aret,       \* what Archive returned ("none" while it runs)
  th,         \* th[0]: createFile run inline; th[i]: the worker of names[i]
  m,          \* a.m: the threads holding the archiver's mutex
  fp,         \* the filepool.FilePool of the call
  zw,         \* a.zw: the entries written to the zip, in stream order
  awritten,   \* a.written
  aentries,   \* a.entries
  ctx,        \* the context of the running call and its errgroup
  zr,         \* e.zr.File: the entries of the archive being extracted
  eopt,       \* extractorOptions: concurrency, chown error handler
  epc,        \* where the thread that called Extract is
  ei,         \* Extract: the index of the loop it is in
  eerr,       \* Extract: the error the loops return with
  eret,       \* what Extract returned ("none" while it runs)
  ew,         \* ew[i]: the worker extracting zr[i]
  limiter,    \* Extract: the permits taken from the limiter channel
  fs,         \* the disk Extract writes to
  ewritten,   \* e.written
  eentries,   \* e.entries
  bf,         \* a filepool.File on its own, in the hands of one holder
  bio,        \* what that holder has written, hashed and read, and its last call
  lp,         \* a FilePool on its own, from New to Close and the error it returned
  cons        \* NewArchiver and NewExtractor: the options passed, the errors returned

avars == <<files, aopt, names, hdrs, apc, ai, aerr, aret, th, m, fp, zw,
           awritten, aentries>>

evars == <<zr, eopt, epc, ei, eerr, eret, ew, limiter, fs, ewritten, eentries>>

bvars == <<bf, bio, lp, cons>>

vars == <<files, aopt, names, hdrs, apc, ai, aerr, aret, th, m, fp, zw,
          awritten, aentries, ctx, zr, eopt, epc, ei, eerr, eret, ew, limiter,
          fs, ewritten, eentries, bf, bio, lp, cons>>

\* a thread that runs no createFile
NoThread == [pc |-> "none", route |-> "", buf |-> 0, left |-> 0, err |-> "nil"]

\* fp == nil
NoPool == [active |-> FALSE, closed |-> FALSE, limiter |-> <<>>, files |-> <<>>]

\* newFile: an empty buffer with no overflow file
NewFile == [w |-> 0, crc |-> <<>>, f |-> FALSE]

\* filepool.New(dir, poolSize, bufferSize)
NewPool(poolSize) ==
  [active |-> TRUE, closed |-> FALSE,
   limiter |-> [i \in 1..poolSize |-> i],
   files |-> [i \in 1..poolSize |-> NewFile]]

\* context.Background() and a fresh errgroup
NewContext == [parent |-> FALSE, gerr |-> "nil"]

\* a context whose Err() is always nil
NeverCancelled == "nil"

\* ctx.Err() of the errgroup's context: cancelled by the caller, or by the
\* group when a worker has returned an error
CtxErr == IF ctx.parent \/ ctx.gerr # "nil" THEN "canceled" ELSE "nil"

\* the thread ids of the call: 0 is the caller's, i the worker of names[i]
Threads == DOMAIN th

Workers == Threads \ {0}

\* wg.Wait() has nothing left to wait for
AllWorkersDone == \A t \in Workers : th[t].pc \in {"none", "done"}

(***************************************************************************)
(* NewArchiver and its options.                                            *)
(***************************************************************************)
\* the zero archiverOptions with NewArchiver's defaults: bufferSize is not
\* among them and stays 0
NewArchiverOptions ==
  [concurrency |-> MaxConcurrency, method |-> Deflate, bufferSize |-> 0]

\* WithArchiverMethod(method) applied to o
WithArchiverMethod(o, method) == [o |-> [o EXCEPT !.method = method], err |-> "nil"]

\* an option that takes any number for the concurrency
WithAnyConcurrency(o, n) == [o |-> [o EXCEPT !.concurrency = n], err |-> "nil"]

\* WithArchiverConcurrency(n) applied to o
WithArchiverConcurrency(o, n) ==
  IF n <= 0 THEN [o |-> o, err |-> "ErrMinConcurrency"]
  ELSE [o |-> [o EXCEPT !.concurrency = n], err |-> "nil"]

\* WithExtractorConcurrency(n) applied to o
WithExtractorConcurrency(o, n) ==
  IF n <= 0 THEN [o |-> o, err |-> "ErrMinConcurrency"]
  ELSE [o |-> [o EXCEPT !.concurrency = n], err |-> "nil"]

\* no constructor has been called with anything
NoCons ==
  [aopts |-> [concurrency |-> 1, method |-> Store], eopts |-> <<>>,
   aerr |-> "nil", eerr |-> "nil"]

\* NewArchiver(w, chroot, WithArchiverMethod(method),
\* WithArchiverConcurrency(n)): the loop over opts stops at the first error
\* and then there is no Archiver
NewArchiver ==
  /\ apc = "new"
  /\ LET r1 == WithArchiverMethod(NewArchiverOptions, cons.aopts.method)
         r2 == WithArchiverConcurrency(r1.o, cons.aopts.concurrency)
     IN IF r2.err # "nil"
        THEN /\ apc' = "invalid"
             /\ cons' = [cons EXCEPT !.aerr = r2.err]
             /\ UNCHANGED aopt
        ELSE /\ apc' = "idle"
             /\ aopt' = r2.o
             /\ UNCHANGED cons
  /\ UNCHANGED <<files, names, hdrs, ai, aerr, aret, th, m, fp, zw, awritten,
                 aentries, ctx, evars, bf, bio, lp>>

(***************************************************************************)
(* Archiver.Archive, the calling thread.                                   *)
(***************************************************************************)
\* lines 99-126: sort the keys, make the pool when concurrency > 1
ArchiveBegin ==
  /\ apc = "idle"
  /\ LET n == Cardinality(files)
         concurrency == IF n < aopt.concurrency THEN n ELSE aopt.concurrency
     IN /\ names' = SortedKeys(files)
        /\ fp' = IF concurrency > 1 THEN NewPool(concurrency) ELSE NoPool
        /\ hdrs' = [i \in 1..n |-> ZeroHeader]
        /\ th' = [t \in 0..n |-> NoThread]
  /\ ai' = 1
  /\ apc' = "loop"
  /\ ctx' = NewContext
  /\ UNCHANGED <<files, aopt, aerr, aret, m, zw, awritten, aentries, evars,
                 bvars>>

\* the chroot test of line 139
InsideChroot(path) == HasPrefix(PathString(path), PathString(Chroot))

\* lines 128-153 of one iteration: skip an irregular file, refuse a path
\* outside the chroot, fill in the header, look at the context
DispatchCheck ==
  /\ apc = "loop"
  /\ ai <= Len(names)
  /\ LET name == names[ai]
         fi == SourceFile(name)
         path == Abs(name)
     IN IF IsIrregular(fi)
        THEN /\ ai' = ai + 1
             /\ UNCHANGED <<apc, aerr, hdrs>>
        ELSE IF ~InsideChroot(path)
        THEN /\ aerr' = "outside"
             /\ apc' = "return"
             /\ UNCHANGED <<ai, hdrs>>
        ELSE /\ hdrs' = [hdrs EXCEPT ![ai] = FileInfoHeader(Rel(Chroot, path), fi)]
             /\ IF CtxErr # "nil"
                THEN aerr' = CtxErr /\ apc' = "return"
                ELSE apc' = "create" /\ UNCHANGED aerr
             /\ UNCHANGED ai
  /\ UNCHANGED <<files, aopt, names, aret, th, m, fp, zw, awritten, aentries, ctx, evars,
                 bvars>>

\* line 186: the loop is over
LoopEnd ==
  /\ apc = "loop"
  /\ ai > Len(names)
  /\ apc' = "return"
  /\ UNCHANGED <<files, aopt, names, hdrs, ai, aerr, aret, th, m, fp, zw,
                 awritten, aentries, ctx, evars,
                 bvars>>

(***************************************************************************)
(* The zip.Writer, at its interface: CreateHeader and CreateHeaderRaw      *)
(* close the entry that was open and start the next one; a Write reaches   *)
(* the stream only while its entry is the open one.                        *)
(***************************************************************************)
\* the entry of names[i] as CreateHeader (raw = FALSE: sizes and CRC follow
\* from the data written) or CreateHeaderRaw (raw = TRUE: as in hdr) starts it
NewEntry(i, hdr, raw) ==
  [i |-> i, name |-> hdr.name, slash |-> hdr.slash, type |-> hdr.type,
   perm |-> hdr.perm, modified |-> ZipTime(hdr.modified),
   method |-> IF hdr.slash THEN Store ELSE hdr.method,
   raw |-> raw, usize |-> hdr.usize, csize |-> hdr.csize, crc |-> hdr.crc,
   open |-> ~hdr.slash, got |-> 0, body |-> "", link |-> <<>>, unix |-> "self"]

CloseLast(w) ==
  IF w = <<>> THEN w ELSE [w EXCEPT ![Len(w)].open = FALSE]

\* a writer that starts nothing new while an entry is open
ZipKeepOpen(w, i, hdr, raw) ==
  IF w # <<>> /\ w[Len(w)].open THEN w ELSE Append(w, NewEntry(i, hdr, raw))

ZipCreateHeader(w, i, hdr, raw) == Append(CloseLast(w), NewEntry(i, hdr, raw))

\* the writer CreateHeader returned for names[i] still writes to the stream
ZipCanWrite(w, i) == w # <<>> /\ w[Len(w)].i = i /\ w[Len(w)].open

\* one Write of a block of data to the open entry
ZipWrite(w, data) ==
  [w EXCEPT ![Len(w)].got = @ + 1, ![Len(w)].body = data]

\* the sizes the zip writer records for an entry of the file fi once all of
\* its payload is in: CreateHeaderRaw keeps the caller's, CreateHeader counts
\* what went in and what its compressor made of it
Recorded(e, fi) ==
  IF e.raw THEN [usize |-> e.usize, csize |-> e.csize]
  ELSE [usize |-> e.got,
        csize |-> IF e.method = Store \/ e.got = 0 THEN e.got ELSE fi.zsize]

\* the CRC the zip writer records for an entry: CreateHeaderRaw keeps the
\* caller's, CreateHeader hashes the data written to the entry
RecordedCrc(e) ==
  IF e.raw THEN e.crc ELSE IF e.got = 0 THEN <<>> ELSE <<e.body>>

(***************************************************************************)
(* The archiver's mutex, the pool and the errgroup.                        *)
(***************************************************************************)
\* a Lock that never waits
NoLock == TRUE

\* a.m.Lock() returns: nobody holds the mutex
LockFree == m = {}

\* an archiver with a compressor for every method
EveryMethod == {Store, Deflate}

\* a.compressors after NewArchiver: the deflate compressor it registers
Compressors == {Deflate}

\* a reset that leaves the buffer as its last holder left it
NoReset(f) == f

\* File.reset: offsets and CRC zeroed, the overflow file truncated and kept
ResetFile(f) == [f EXCEPT !.w = 0, !.crc = <<>>]

\* a Put that sends the index to the limiter twice
PutTwice(pool, idx) ==
  IF idx = 0 THEN pool
  ELSE [pool EXCEPT !.files[idx] = ResetFile(@), !.limiter = Append(Append(@, idx), idx)]

\* a Put that keeps the buffer
PutNothing(pool, idx) == pool

\* fp.Put(f) for the thread's buffer (nothing to put back without one)
PoolPut(pool, idx) ==
  IF idx = 0 THEN pool
  ELSE [pool EXCEPT !.files[idx] = ResetFile(@), !.limiter = Append(@, idx)]

\* a Close that leaves the overflow files where they are
KeepFiles(pool) == pool

\* fp.Close: every overflow file closed and removed
PoolClose(pool) ==
  IF ~pool.active THEN pool
  ELSE [pool EXCEPT !.closed = TRUE,
                    !.files = [i \in DOMAIN pool.files |-> [pool.files[i] EXCEPT !.f = FALSE]]]

\* a group that drops the errors of its goroutines
DropErr(c, err) == c

\* a group that keeps the error of the goroutine that failed last
KeepLast(c, err) == IF err # "nil" THEN [c EXCEPT !.gerr = err] ELSE c

\* errgroup.Go's wrapper: the first non-nil error is kept (and cancels ctx)
GroupErr(c, err) ==
  IF err # "nil" /\ c.gerr = "nil" THEN [c EXCEPT !.gerr = err] ELSE c

\* a countWriter that forgets to count
CountNothing(written, n) == written

\* countWriter.Write, line 31: atomic.AddInt64(w.written, int64(n))
CountWrite(written, n) == written + n

\* an incOnSuccess that takes a failure back off the count
CountDown(n, err) == IF err = "nil" THEN n + 1 ELSE n - 1

\* an incOnSuccess that does not count
CountNever(n, err) == n

\* incOnSuccess
IncOnSuccess(n, err) == IF err = "nil" THEN n + 1 ELSE n

\* the entry a thread works on
EntryOf(t) == IF t = 0 THEN ai ELSE t

\* createFile returns err in thread t: deferred Unlock, then for a worker
\* fp.Put, incOnSuccess and the errgroup; for the caller incOnSuccess and
\* the loop's "if err != nil { return err }"
Finish(t, err) ==
  /\ m' = m \ {t}
  /\ aentries' = IncOnSuccess(aentries, err)
  /\ IF t = 0
     THEN /\ th' = [th EXCEPT ![0] = NoThread]
          /\ IF err # "nil"
             THEN aerr' = err /\ apc' = "return" /\ UNCHANGED ai
             ELSE ai' = ai + 1 /\ apc' = "loop" /\ UNCHANGED aerr
          /\ UNCHANGED <<fp, ctx>>
     ELSE /\ th' = [th EXCEPT ![t] = [NoThread EXCEPT !.pc = "done", !.err = err]]
          /\ fp' = PoolPut(fp, th[t].buf)
          /\ ctx' = GroupErr(ctx, err)
          /\ UNCHANGED <<apc, ai, aerr>>

\* line 159-160, createDirectory: the header under the mutex
CreateDirectory ==
  /\ apc = "create"
  /\ hdrs[ai].type = "dir"
  /\ LockFree
  /\ zw' = ZipCreateHeader(zw, ai, hdrs[ai], FALSE)
  /\ aentries' = IncOnSuccess(aentries, "nil")
  /\ ai' = ai + 1
  /\ apc' = "loop"
  /\ UNCHANGED <<files, aopt, names, hdrs, aerr, aret, th, m, fp, awritten, ctx, evars,
                 bvars>>

\* createSymlink, lines 217-220: Lock and createHeader
CreateSymlinkHeader ==
  /\ apc = "create"
  /\ hdrs[ai].type = "sym"
  /\ LockFree
  /\ m' = m \cup {0}
  /\ zw' = ZipCreateHeader(zw, ai, hdrs[ai], FALSE)
  /\ apc' = "symlink"
  /\ UNCHANGED <<files, aopt, names, hdrs, ai, aerr, aret, th, fp, awritten,
                 aentries, ctx, evars,
                 bvars>>

\* createSymlink, lines 225-232: Readlink, the target written to the entry
\* (not through a countWriter), incOnSuccess, Unlock
CreateSymlinkWrite ==
  /\ apc = "symlink"
  /\ LET ok == ZipCanWrite(zw, ai)
         err == IF ok THEN "nil" ELSE "closed"
     IN /\ zw' = IF ok
                 THEN [ZipWrite(zw, "") EXCEPT ![Len(zw)].link = SourceFile(names[ai]).link]
                 ELSE zw
        /\ aentries' = IncOnSuccess(aentries, err)
        /\ IF ok
           THEN ai' = ai + 1 /\ apc' = "loop" /\ UNCHANGED aerr
           ELSE aerr' = err /\ apc' = "return" /\ UNCHANGED ai
  /\ m' = m \ {0}
  /\ UNCHANGED <<files, aopt, names, hdrs, aret, th, fp, awritten, ctx, evars,
                 bvars>>

\* lines 162-178: a regular file gets the method, then is archived inline
\* (no pool; os.Open of createFile included) or handed to a worker
CreateRegular ==
  /\ apc = "create"
  /\ hdrs[ai].type = "reg"
  /\ LET hdr == IF hdrs[ai].usize > 0
                THEN [hdrs[ai] EXCEPT !.method = aopt.method]
                ELSE hdrs[ai]
     IN /\ hdrs' = [hdrs EXCEPT ![ai] = hdr]
        /\ IF ~fp.active
           THEN IF ~SourceFile(names[ai]).readable
                THEN /\ aerr' = "ioerr"
                     /\ apc' = "return"
                     /\ UNCHANGED <<ai, th>>
                ELSE /\ th' = [th EXCEPT ![0] = [NoThread EXCEPT !.pc = "lock",
                                                                !.route = "simple"]]
                     /\ apc' = "inline"
                     /\ UNCHANGED <<ai, aerr>>
           ELSE /\ th' = [th EXCEPT ![ai] = [NoThread EXCEPT !.pc = "get"]]
                /\ ai' = ai + 1
                /\ apc' = "loop"
                /\ UNCHANGED aerr
  /\ UNCHANGED <<files, aopt, names, aret, m, fp, zw, awritten, aentries, ctx, evars,
                 bvars>>

(***************************************************************************)
(* createFile / compressFile / compressFileSimple in a thread t.           *)
(***************************************************************************)
\* the worker up to the mutex: fp.Get, os.Open, and compressFile lines
\* 252-281: compress into the buffer, fall back to Store when that inflates
Stage(t) ==
  /\ t \in Workers
  /\ th[t].pc = "get"
  /\ ~fp.closed
  /\ fp.limiter # <<>>
  /\ LET idx == Head(fp.limiter)
         fi == SourceFile(names[t])
         hdr == hdrs[t]
         w == CompressedSize(hdr.method, fi)
         staged == [w |-> w, crc |-> Append(fp.files[idx].crc, fi.content),
                    f |-> fp.files[idx].f \/ w > aopt.bufferSize]
     IN IF ~fi.readable
        THEN /\ th' = [th EXCEPT ![t] = [NoThread EXCEPT !.pc = "done", !.err = "ioerr"]]
             /\ ctx' = GroupErr(ctx, "ioerr")
             /\ fp' = PoolPut([fp EXCEPT !.limiter = Tail(@)], idx)
             /\ UNCHANGED hdrs
        ELSE IF hdr.method \notin Compressors
        THEN /\ th' = [th EXCEPT ![t] = [NoThread EXCEPT !.pc = "lock", !.route = "simple",
                                                        !.buf = idx]]
             /\ fp' = [fp EXCEPT !.limiter = Tail(@)]
             /\ UNCHANGED <<hdrs, ctx>>
        ELSE /\ fp' = [fp EXCEPT !.limiter = Tail(@), !.files[idx] = staged]
             /\ IF w > hdr.usize
                THEN /\ hdrs' = [hdrs EXCEPT ![t].csize = w, ![t].method = Store]
                     /\ th' = [th EXCEPT ![t] = [NoThread EXCEPT !.pc = "lock",
                                                   !.route = "simple", !.buf = idx]]
                ELSE /\ hdrs' = [hdrs EXCEPT ![t].csize = w, ![t].crc = staged.crc]
                     /\ th' = [th EXCEPT ![t] = [NoThread EXCEPT !.pc = "lock",
                                                   !.route = "raw", !.buf = idx]]
             /\ UNCHANGED ctx
  /\ UNCHANGED <<files, aopt, names, apc, ai, aerr, aret, m, zw, awritten, aentries,
                 evars,
                 bvars>>

\* Lock, then createHeaderRaw (line 286) or createHeader (line 307); with an
\* empty payload WriteTo writes nothing and the function returns
EmitHeader(t) ==
  /\ t \in Threads
  /\ th[t].pc = "lock"
  /\ LockFree
  /\ LET i == EntryOf(t)
         raw == th[t].route = "raw"
         left == IF raw THEN hdrs[i].csize ELSE SourceFile(names[i]).size
     IN /\ zw' = ZipCreateHeader(zw, i, hdrs[i], raw)
        /\ IF left = 0
           THEN Finish(t, "nil")
           ELSE /\ th' = [th EXCEPT ![t].pc = "copy", ![t].left = left]
                /\ m' = m \cup {t}
                /\ UNCHANGED <<apc, ai, aerr, aentries, fp, ctx>>
  /\ UNCHANGED <<files, aopt, names, hdrs, aret, awritten, evars,
                 bvars>>

\* one countWriter.Write of br.WriteTo (lines 292, 312): the context, the
\* write to the zip entry, the byte count; the last one ends createFile
CopyChunk(t) ==
  /\ t \in Threads
  /\ th[t].pc = "copy"
  /\ LET i == EntryOf(t)
     IN IF CtxErr # "nil"
        THEN /\ Finish(t, CtxErr)
             /\ UNCHANGED <<zw, awritten>>
        ELSE IF ~ZipCanWrite(zw, i)
        THEN /\ Finish(t, "closed")
             /\ UNCHANGED <<zw, awritten>>
        ELSE /\ zw' = ZipWrite(zw, SourceFile(names[i]).content)
             /\ awritten' = CountWrite(awritten, 1)
             /\ IF th[t].left = 1
                THEN Finish(t, "nil")
                ELSE /\ th' = [th EXCEPT ![t].left = @ - 1]
                     /\ UNCHANGED <<apc, ai, aerr, aentries, m, fp, ctx>>
  /\ UNCHANGED <<files, aopt, names, hdrs, aret, evars,
                 bvars>>

\* a deferred Wait that returns at once
NoDeferredWait == TRUE

\* wg.Wait() of line 186 and of the deferred function has returned
WaitDone == AllWorkersDone

\* Archive returns: the deferred wg.Wait() (lines 120-124) puts the group's
\* error over the loop's, then the deferred dclose(fp, &err) closes the pool
ArchiveReturn ==
  /\ apc = "return"
  /\ WaitDone
  /\ aret' = IF ctx.gerr # "nil" THEN ctx.gerr ELSE aerr
  /\ fp' = PoolClose(fp)
  /\ apc' = "done"
  /\ UNCHANGED <<files, aopt, names, hdrs, ai, aerr, th, m, zw, awritten,
                 aentries, ctx, evars,
                 bvars>>

\* the caller cancels the context it passed
Cancel ==
  /\ apc \in {"loop", "create", "inline", "symlink", "return"}
  /\ ~ctx.parent
  /\ ctx' = [ctx EXCEPT !.parent = TRUE]
  /\ UNCHANGED <<avars, evars,
                 bvars>>

(***************************************************************************)
(* Extractor.Extract: the calling thread.                                  *)
(***************************************************************************)
\* a worker that has not been started
NoWorker == [pc |-> "none", loc |-> <<>>, left |-> 0, err |-> "nil", called |-> FALSE]

\* filepath.Abs(filepath.Join(e.chroot, file.Name))
EntryPath(e) == Abs(Chroot \o e.name)

\* the chroot test of line 152
InsideExtractRoot(path) ==
  \/ HasPrefix(PathString(path), PathString(Chroot) \o <<"/">>)
  \/ path = Chroot

\* the blocks file.Open() yields for an entry
EntryBlocks(e) == IF e.raw THEN e.usize ELSE e.got

\* the zip reader's check of the data it has read against the header's CRC
\* (CreateHeader computed the CRC itself, CreateHeaderRaw took the caller's)
ChecksumOk(e) == ~e.raw \/ e.crc = <<e.body>>

\* an updateFileMetadata that restores nothing
NoMetadata(f, path, e) == [fs |-> f, err |-> "nil", call |-> FALSE]

\* lchown(path, uid, gid) by a process without privileges: the owner of an
\* entry's Info-ZIP New Unix field ("none" when the entry has no such
\* field) is the user itself or somebody else
Lchown(e) == IF e.unix = "other" THEN "eperm" ELSE "nil"

\* a handler whose error is dropped
HandlerIgnored == "nil"

\* the chown error handler of the options: none, one that returns nil, one
\* that returns an error
HandlerResult == IF eopt.handler = "fail" THEN "handlererr" ELSE "nil"

\* updateFileMetadata, lines 301-332, up to the call of the handler: call
\* says that lchown failed and a handler is there to be asked
UpdateFileMetadata(f, path, e) ==
  LET t == Lchtimes(f, path, e.modified)
      c == Lchmod(t.fs, path, e.type, e.perm)
  IN IF t.err # "nil" THEN [fs |-> t.fs, err |-> t.err, call |-> FALSE]
     ELSE IF c.err # "nil" THEN [fs |-> c.fs, err |-> c.err, call |-> FALSE]
     ELSE [fs |-> c.fs, err |-> "nil",
           call |-> e.unix # "none" /\ Lchown(e) # "nil" /\ eopt.handler # "none"]

\* lines 334-337 on the calling thread, where no worker is left to hold
\* e.m: the handler's result is what updateFileMetadata returns
ChownHandled(r) == IF r.call THEN HandlerResult ELSE r.err

EWorkers == DOMAIN ew

\* wg.Wait() has nothing left to wait for
AllExtracted == \A i \in EWorkers : ew[i].pc \in {"none", "done"}

\* lines 132-139: the limiter, the errgroup and its context
ExtractBegin ==
  /\ epc = "idle"
  /\ ew' = [i \in 1..Len(zr) |-> NoWorker]
  /\ limiter' = 0
  /\ ctx' = NewContext
  /\ ei' = 1
  /\ epc' = "phase1"
  /\ UNCHANGED <<avars, zr, eopt, eerr, eret, fs, ewritten, eentries,
                 bvars>>

\* createDirectory, lines 235-242
ExtractDirectory(f, path) ==
  LET r == Mkdir(f, path)
  IN [fs |-> r.fs, err |-> IF r.err = "eexist" THEN "nil" ELSE r.err]

\* lines 141-190, one iteration of the first loop up to the hand-over of a
\* regular file: irregular entries are skipped, a path outside the chroot is
\* refused, the parent directories are made, the context is looked at, a
\* symlink is left for later, a directory is made
PhaseOneEntry ==
  /\ epc = "phase1"
  /\ ei <= Len(zr)
  /\ LET file == zr[ei]
         path == EntryPath(file)
         mk == MkdirAll(fs, Parent(path))
         dir == ExtractDirectory(mk.fs, path)
     IN IF file.type = "irregular"
        THEN /\ ei' = ei + 1
             /\ UNCHANGED <<epc, eerr, fs, eentries>>
        ELSE IF ~InsideExtractRoot(path)
        THEN /\ eerr' = "outside"
             /\ epc' = "return"
             /\ UNCHANGED <<ei, fs, eentries>>
        ELSE IF mk.err # "nil"
        THEN /\ eerr' = mk.err
             /\ epc' = "return"
             /\ fs' = mk.fs
             /\ UNCHANGED <<ei, eentries>>
        ELSE IF CtxErr # "nil"
        THEN /\ eerr' = CtxErr
             /\ epc' = "return"
             /\ fs' = mk.fs
             /\ UNCHANGED <<ei, eentries>>
        ELSE IF file.type = "sym"
        THEN /\ ei' = ei + 1
             /\ fs' = mk.fs
             /\ UNCHANGED <<epc, eerr, eentries>>
        ELSE IF file.type = "dir"
        THEN /\ fs' = dir.fs
             /\ eentries' = IncOnSuccess(eentries, dir.err)
             /\ IF dir.err # "nil"
                THEN eerr' = dir.err /\ epc' = "return" /\ UNCHANGED ei
                ELSE ei' = ei + 1 /\ UNCHANGED <<epc, eerr>>
        ELSE /\ epc' = "acquire"
             /\ fs' = mk.fs
             /\ UNCHANGED <<ei, eerr, eentries>>
  /\ UNCHANGED <<avars, ctx, zr, eopt, eret, ew, limiter, ewritten,
                 bvars>>

\* a limiter channel that is never full
LimiterUnbounded == TRUE

\* line 176: the send to the limiter channel, made with the capacity
\* e.options.concurrency, does not block
LimiterHasRoom == limiter < eopt.concurrency

\* lines 175-185: a permit of the limiter, then the worker is started
PhaseOneSpawn ==
  /\ epc = "acquire"
  /\ LimiterHasRoom
  /\ limiter' = limiter + 1
  /\ ew' = [ew EXCEPT ![ei].pc = "open"]
  /\ ei' = ei + 1
  /\ epc' = "phase1"
  /\ UNCHANGED <<avars, ctx, zr, eopt, eerr, eret, fs, ewritten, eentries,
                 bvars>>

\* a Wait that returns at once
NoWait == TRUE

\* a Wait that never has an error to return
WaitNil == "nil"

\* what wg.Wait() returns once it returns: the first error of the group
WaitErr == ctx.gerr

\* wg.Wait() of line 192 has returned
PhaseOneDone == AllExtracted

\* lines 192-194: after the first loop, wait for every worker
PhaseOneWait ==
  /\ epc = "phase1"
  /\ ei > Len(zr)
  /\ PhaseOneDone
  /\ IF WaitErr # "nil"
     THEN eerr' = WaitErr /\ epc' = "return" /\ UNCHANGED ei
     ELSE ei' = 1 /\ epc' = "phase2" /\ UNCHANGED eerr
  /\ UNCHANGED <<avars, ctx, zr, eopt, eret, ew, limiter, fs, ewritten, eentries,
                 bvars>>

(***************************************************************************)
(* Extractor: the worker of a regular file (lines 178-185, createFile).    *)
(***************************************************************************)
\* a goroutine that returns without giving its permit back
WorkerKeepsPermit(i, err) ==
  /\ ew' = [ew EXCEPT ![i] = [NoWorker EXCEPT !.pc = "done", !.err = err]]
  /\ limiter' = limiter
  /\ ctx' = GroupErr(ctx, err)

\* the goroutine returns err: the permit goes back, the errgroup keeps the
\* first error
WorkerExit(i, err) ==
  /\ ew' = [ew EXCEPT ![i] = [NoWorker EXCEPT !.pc = "done", !.err = err]]
  /\ limiter' = limiter - 1
  /\ ctx' = GroupErr(ctx, err)

\* the worker's updateFileMetadata has come to its end, or to e.m.Lock()
WorkerMetadata(i, md) ==
  IF md.call
  THEN /\ ew' = [ew EXCEPT ![i] = [NoWorker EXCEPT !.pc = "chown"]]
       /\ UNCHANGED <<limiter, ctx>>
  ELSE WorkerExit(i, md.err)

\* an e.m that lets everybody in
NoHandlerLock == TRUE

\* e.m is free: no worker is between Lock and the deferred Unlock
HandlerFree == \A j \in DOMAIN ew : ew[j].pc # "handler"

\* line 334: e.m.Lock(), and the handler is called
HandlerEnter(i) ==
  /\ i \in DOMAIN ew
  /\ ew[i].pc = "chown"
  /\ HandlerFree
  /\ ew' = [ew EXCEPT ![i].pc = "handler", ![i].called = TRUE]
  /\ UNCHANGED <<avars, ctx, zr, eopt, epc, ei, eerr, eret, limiter, fs, ewritten,
                 eentries, bvars>>

\* lines 335-337: the handler returns, e.m is unlocked, and the goroutine
\* returns what the handler returned
HandlerReturn(i) ==
  /\ i \in DOMAIN ew
  /\ ew[i].pc = "handler"
  /\ ew' = [ew EXCEPT ![i] = [NoWorker EXCEPT !.pc = "done", !.err = HandlerResult,
                                              !.called = TRUE]]
  /\ limiter' = limiter - 1
  /\ ctx' = GroupErr(ctx, HandlerResult)
  /\ UNCHANGED <<avars, zr, eopt, epc, ei, eerr, eret, fs, ewritten, eentries, bvars>>

\* createFile lines 271-285: os.Remove, file.Open, os.OpenFile; an entry
\* without payload is complete here (Flush writes nothing) and gets its
\* metadata
ExtractOpen(i) ==
  /\ i \in EWorkers
  /\ ew[i].pc = "open"
  /\ LET file == zr[i]
         path == EntryPath(file)
         rm == Remove(fs, path)
         of == OpenFile(rm.fs, path)
         md == UpdateFileMetadata(of.fs, path, file)
     IN IF rm.err # "nil" /\ ~IsNotExist(rm.err)
        THEN /\ WorkerExit(i, rm.err)
             /\ UNCHANGED <<fs, eentries>>
        ELSE IF of.err # "nil"
        THEN /\ WorkerExit(i, of.err)
             /\ fs' = rm.fs
             /\ UNCHANGED eentries
        ELSE IF EntryBlocks(file) = 0
        THEN /\ WorkerMetadata(i, md)
             /\ fs' = md.fs
             /\ eentries' = IncOnSuccess(eentries, "nil")
        ELSE /\ ew' = [ew EXCEPT ![i] = [NoWorker EXCEPT !.pc = "copy", !.loc = of.loc,
                                                        !.left = EntryBlocks(file)]]
             /\ fs' = of.fs
             /\ UNCHANGED <<limiter, ctx, eentries>>
  /\ UNCHANGED <<avars, zr, eopt, epc, ei, eerr, eret, ewritten,
                 bvars>>

\* one countWriter.Write of bw.ReadFrom / bw.Flush (lines 290-296): the
\* context, the write to the file, the byte count; after the last one the
\* checksum has been verified, the entry is counted and gets its metadata
ExtractCopy(i) ==
  /\ i \in EWorkers
  /\ ew[i].pc = "copy"
  /\ LET file == zr[i]
         path == EntryPath(file)
         wr == WriteAt(fs, ew[i].loc, file.body)
         md == UpdateFileMetadata(wr, path, file)
     IN IF ew[i].left = 1 /\ ~ChecksumOk(file)
        THEN /\ WorkerExit(i, "checksum")
             /\ UNCHANGED <<fs, ewritten, eentries>>
        ELSE IF CtxErr # "nil"
        THEN /\ WorkerExit(i, CtxErr)
             /\ UNCHANGED <<fs, ewritten, eentries>>
        ELSE /\ ewritten' = CountWrite(ewritten, 1)
             /\ IF ew[i].left = 1
                THEN /\ WorkerMetadata(i, md)
                     /\ fs' = md.fs
                     /\ eentries' = IncOnSuccess(eentries, "nil")
                ELSE /\ ew' = [ew EXCEPT ![i].left = @ - 1]
                     /\ fs' = wr
                     /\ UNCHANGED <<limiter, ctx, eentries>>
  /\ UNCHANGED <<avars, zr, eopt, epc, ei, eerr, eret,
                 bvars>>

(***************************************************************************)
(* Extractor: the symlinks, the directories' metadata, the return.         *)
(***************************************************************************)
\* a createSymlink that leaves what is in the way alone and reports nothing
SkipSymlink(f, path, e) == [fs |-> f, err |-> "nil", call |-> FALSE]

\* createSymlink, lines 244-268
ExtractSymlink(f, path, e) ==
  LET rm == Remove(f, path)
      sl == Symlink(rm.fs, e.link, path)
  IN IF rm.err # "nil" /\ ~IsNotExist(rm.err)
     THEN [fs |-> rm.fs, err |-> rm.err, call |-> FALSE]
     ELSE IF sl.err # "nil" THEN [fs |-> sl.fs, err |-> sl.err, call |-> FALSE]
     ELSE UpdateFileMetadata(sl.fs, path, e)

\* lines 197-212, one iteration of the second loop
PhaseTwoEntry ==
  /\ epc = "phase2"
  /\ ei <= Len(zr)
  /\ LET file == zr[ei]
         r == ExtractSymlink(fs, EntryPath(file), file)
         err == ChownHandled(r)
     IN IF file.type # "sym"
        THEN /\ ei' = ei + 1
             /\ UNCHANGED <<epc, eerr, fs, eentries, ew>>
        ELSE /\ fs' = r.fs
             /\ ew' = [ew EXCEPT ![ei].called = r.call]
             /\ eentries' = IncOnSuccess(eentries, err)
             /\ IF err # "nil"
                THEN eerr' = err /\ epc' = "return" /\ UNCHANGED ei
                ELSE ei' = ei + 1 /\ UNCHANGED <<epc, eerr>>
  /\ UNCHANGED <<avars, ctx, zr, eopt, eret, limiter, ewritten,
                 bvars>>

\* line 212: the second loop is over
PhaseTwoEnd ==
  /\ epc = "phase2"
  /\ ei > Len(zr)
  /\ ei' = 1
  /\ epc' = "phase3"
  /\ UNCHANGED <<avars, ctx, zr, eopt, eerr, eret, ew, limiter, fs, ewritten, eentries,
                 bvars>>

\* lines 216-230, one iteration of the third loop
PhaseThreeEntry ==
  /\ epc = "phase3"
  /\ ei <= Len(zr)
  /\ LET file == zr[ei]
         r == UpdateFileMetadata(fs, EntryPath(file), file)
         err == ChownHandled(r)
     IN IF file.type # "dir"
        THEN /\ ei' = ei + 1
             /\ UNCHANGED <<epc, eerr, fs, ew>>
        ELSE /\ fs' = r.fs
             /\ ew' = [ew EXCEPT ![ei].called = r.call]
             /\ IF err # "nil"
                THEN eerr' = err /\ epc' = "return" /\ UNCHANGED ei
                ELSE ei' = ei + 1 /\ UNCHANGED <<epc, eerr>>
  /\ UNCHANGED <<avars, ctx, zr, eopt, eret, limiter, ewritten, eentries,
                 bvars>>

\* line 232: return nil
PhaseThreeEnd ==
  /\ epc = "phase3"
  /\ ei > Len(zr)
  /\ epc' = "return"
  /\ UNCHANGED <<avars, ctx, zr, eopt, ei, eerr, eret, ew, limiter, fs, ewritten, eentries,
                 bvars>>

\* the deferred wg.Wait() of lines 135-139 has returned
ExtractWaitDone == AllExtracted

\* Extract returns: the group's error goes over the loops'
ExtractReturn ==
  /\ epc = "return"
  /\ ExtractWaitDone
  /\ eret' = IF WaitErr # "nil" THEN WaitErr ELSE eerr
  /\ epc' = "done"
  /\ UNCHANGED <<avars, ctx, zr, eopt, ei, eerr, ew, limiter, fs, ewritten, eentries,
                 bvars>>

\* the caller of Extract cancels the context it passed
CancelExtract ==
  /\ epc \in {"phase1", "acquire", "phase2", "phase3", "return"}
  /\ ~ctx.parent
  /\ ctx' = [ctx EXCEPT !.parent = TRUE]
  /\ UNCHANGED <<avars, evars,
                 bvars>>

(***************************************************************************)
(* From the archive to the extractor.                                      *)
(***************************************************************************)
\* Archiver.Close after a successful Archive: zw.Close ends the last entry
\* and writes the central directory
Close ==
  /\ apc = "done"
  /\ aret = "nil"
  /\ zw' = CloseLast(zw)
  /\ apc' = "closed"
  /\ UNCHANGED <<files, aopt, names, hdrs, ai, aerr, aret, th, m, fp, awritten,
                 aentries, ctx, evars,
                 bvars>>

\* NewExtractor(filename, chroot, WithExtractorConcurrency(c)) on a zip file:
\* when the option returns an error there is no Extractor
NewExtractor ==
  /\ apc \in {"closed", "foreign"}
  /\ epc = "off"
  /\ \E c \in (-1)..MaxConcurrency :
       LET r == WithExtractorConcurrency(eopt, c)
       IN /\ cons' = [cons EXCEPT !.eopts = <<c>>, !.eerr = r.err]
          /\ IF r.err # "nil"
             THEN /\ epc' = "invalid"
                  /\ UNCHANGED <<eopt, zr>>
             ELSE /\ epc' = "idle"
                  /\ eopt' = r.o
                  /\ zr' = zw
  /\ UNCHANGED <<avars, ctx, ei, eerr, eret, ew, limiter, fs, ewritten, eentries,
                 bf, bio, lp>>

(***************************************************************************)
(* Zip files that another writer has made, as zip.OpenReader lists them.   *)
(***************************************************************************)
MadeEntry(name, type, link, blocks, body) ==
  [i |-> 0, name |-> name, slash |-> (type = "dir"), type |-> type,
   perm |-> IF type = "reg" THEN 4 ELSE 5, modified |-> 6, method |-> Store,
   raw |-> FALSE, usize |-> blocks, csize |-> blocks, crc |-> <<>>,
   open |-> FALSE, got |-> blocks, body |-> body, link |-> link, unix |-> "none"]

MadeEntries ==
  { MadeEntry(<<"root">>, "dir", <<>>, 0, ""),
    MadeEntry(<<"root">>, "sym", <<"..">>, 0, ""),
    MadeEntry(<<"root", "inner">>, "sym", <<"..">>, 0, ""),
    MadeEntry(<<"root", "inner">>, "dir", <<>>, 0, ""),
    MadeEntry(<<"root", "inner", "vuln">>, "reg", <<>>, 1, "V"),
    MadeEntry(<<"..", "x">>, "reg", <<>>, 1, "X"),
    MadeEntry(<<"p">>, "irregular", <<>>, 0, "") }

RECURSIVE SeqsUpTo(_, _)
\* the sequences of at most n different elements of S
SeqsUpTo(S, n) ==
  IF n = 0 THEN {<<>>}
  ELSE LET shorter == SeqsUpTo(S, n - 1)
       IN shorter \cup
          { Append(q, x) : q \in {r \in shorter : Len(r) = n - 1},
                           x \in S }

\* entries that carry an Info-ZIP New Unix field, made by somebody else
\* ("other") or by the user that extracts them ("self"), and one without
OwnedEntries ==
  { [MadeEntry(<<"d">>, "dir", <<>>, 0, "") EXCEPT !.unix = "other"],
    [MadeEntry(<<"d", "f">>, "reg", <<>>, 1, "F") EXCEPT !.unix = "other"],
    [MadeEntry(<<"g">>, "reg", <<>>, 1, "G") EXCEPT !.unix = "other"],
    [MadeEntry(<<"h">>, "reg", <<>>, 0, "") EXCEPT !.unix = "self"],
    MadeEntry(<<"k">>, "reg", <<>>, 1, "K"),
    [MadeEntry(<<"s">>, "sym", <<"g">>, 0, "") EXCEPT !.unix = "other"] }

OwnedArchives ==
  { q \in SeqsUpTo(OwnedEntries, MaxEntries) :
      q # <<>> /\ \A j, k \in DOMAIN q : j # k => q[j] # q[k] }

\* directories and regular files of one tree, each with a mode and a time
\* of its own, and a regular file t/u below the name of the regular file t
TreeEntries ==
  { [MadeEntry(<<"d">>, "dir", <<>>, 0, "") EXCEPT !.perm = 5, !.modified = 2],
    [MadeEntry(<<"d", "s">>, "dir", <<>>, 0, "") EXCEPT !.perm = 7, !.modified = 4],
    [MadeEntry(<<"d", "f">>, "reg", <<>>, 1, "F") EXCEPT !.perm = 4, !.modified = 6],
    [MadeEntry(<<"d", "s", "g">>, "reg", <<>>, 1, "G") EXCEPT !.perm = 6, !.modified = 8],
    [MadeEntry(<<"t">>, "reg", <<>>, 0, "") EXCEPT !.perm = 6, !.modified = 10],
    [MadeEntry(<<"t", "u">>, "reg", <<>>, 1, "U") EXCEPT !.perm = 4, !.modified = 12] }

\* the zip files with some of them, in every order
TreeArchives ==
  { q \in SeqsUpTo(TreeEntries, MaxEntries) :
      q # <<>> /\ \A j, k \in DOMAIN q : j # k => q[j] # q[k] }

MadeArchives ==
  { q \in SeqsUpTo(MadeEntries, MaxEntries) :
      q # <<>> /\ \A j, k \in DOMAIN q : j # k => q[j] # q[k] }

(***************************************************************************)
(* filepool.File in detail: a buffer whose first `size` bytes live in      *)
(* memory and whose remainder lives in an overflow file.  The archiver     *)
(* above keeps only a summary of each buffer (bytes written, checksum,     *)
(* whether the overflow file exists); here every byte is kept.             *)
(***************************************************************************)
Min(a, b) == IF a < b THEN a ELSE b

\* the bytes a holder may write or hash
Bytes == {"a", "b"}

\* what make([]byte, n) fills a slice with
ZeroByte == "0"

\* a 32-bit word, least significant bit first
Word == [1..32 -> {0, 1}]

ZeroWord == [i \in 1..32 |-> 0]

\* crc32.IEEE = 0xedb88320
PolyIEEE ==
  <<0, 0, 0, 0, 0, 1, 0, 0, 1, 1, 0, 0, 0, 0, 0, 1,
    0, 0, 0, 1, 1, 1, 0, 1, 1, 0, 1, 1, 0, 1, 1, 1>>

XorWord(a, b) == [i \in 1..32 |-> (a[i] + b[i]) % 2]

NotWord(a) == [i \in 1..32 |-> 1 - a[i]]

ShiftRight(a) == [i \in 1..32 |-> IF i < 32 THEN a[i + 1] ELSE 0]

ByteWord(ch) ==
  [i \in 1..32 |-> IF i <= 8 THEN (CharCode(ch) \div 2^(i - 1)) % 2 ELSE 0]

RECURSIVE CrcRounds(_, _)
CrcRounds(c, k) ==
  IF k = 0 THEN c
  ELSE CrcRounds(IF c[1] = 1 THEN XorWord(ShiftRight(c), PolyIEEE)
                 ELSE ShiftRight(c), k - 1)

\* the hasher's Write of one byte: the running CRC-32 (IEEE) is inverted,
\* folded with the byte through eight rounds of the polynomial, and
\* inverted back
CrcUpdate(crc, ch) == NotWord(CrcRounds(XorWord(NotWord(crc), ByteWord(ch)), 8))

\* newFile(dir, idx, size): nothing allocated, no overflow file yet
newFile(size) ==
  [size |-> size, buf |-> <<>>, w |-> 0, r |-> 0, crc |-> ZeroWord,
   f |-> FALSE, data |-> <<>>]

\* (*os.File).WriteAt(p, off): the file grows as needed, a gap reads as zeros
FileWriteAt(data, p, off) ==
  [j \in 1..(IF off + Len(p) > Len(data) THEN off + Len(p) ELSE Len(data)) |->
     IF j > off /\ j <= off + Len(p) THEN p[j - off]
     ELSE IF j <= Len(data) THEN data[j]
     ELSE ZeroByte]

\* (*os.File).ReadAt(p, off) with len(p) = k: the bytes there are, and io.EOF
\* when there are fewer than k of them
FileReadAt(data, k, off) ==
  LET last == Min(off + k, Len(data))
      got  == IF off < 0 \/ last <= off THEN <<>> ELSE SubSeq(data, off + 1, last)
  IN  [p |-> got, err |-> IF Len(got) < k THEN "EOF" ELSE "nil"]

\* File.Write(p): the file afterwards, the count and the error returned
Write(f, p) ==
  LET f1   == IF f.buf = <<>> /\ f.size > 0
              THEN [f EXCEPT !.buf = [j \in 1..f.size |-> ZeroByte]]
              ELSE f
      n    == IF f1.w < Len(f1.buf) THEN Min(Len(p), Len(f1.buf) - f1.w) ELSE 0
      f2   == [f1 EXCEPT !.buf = [j \in 1..Len(f1.buf) |->
                                    IF j > f1.w /\ j <= f1.w + n
                                    THEN p[j - f1.w] ELSE f1.buf[j]],
                         !.w = @ + n]
      rest == SubSeq(p, n + 1, Len(p))
      off  == f2.w - Len(f2.buf)
  IN  IF rest = <<>>
      THEN [f |-> f2, n |-> n, err |-> "nil"]
      ELSE [f |-> [f2 EXCEPT !.f = TRUE,
                             !.data = FileWriteAt(@, rest, off),
                             !.w = @ + Len(rest)],
            n |-> Len(rest) + n, err |-> "nil"]

\* a Read that never looks in the overflow file
ReadPrefixOnly(f, k) ==
  LET n == Min(Min(k, f.w - f.r), Len(f.buf) - f.r)
  IN  IF f.w - f.r <= 0
      THEN [f |-> f, p |-> <<>>, err |-> "EOF"]
      ELSE IF n <= 0
      THEN [f |-> f, p |-> <<>>, err |-> "nil"]
      ELSE [f |-> [f EXCEPT !.r = @ + n], p |-> SubSeq(f.buf, f.r + 1, f.r + n),
            err |-> "nil"]

\* File.Read(p) with len(p) = k: the file afterwards, the bytes placed in
\* p, and the error returned
Read(f, k) ==
  LET remaining == f.w - f.r
      k1   == Min(k, remaining)
      n    == IF f.r < Len(f.buf) THEN Min(k1, Len(f.buf) - f.r) ELSE 0
      head == SubSeq(f.buf, f.r + 1, f.r + n)
      r1   == f.r + n
      k2   == k1 - n
      tail == IF f.f THEN FileReadAt(f.data, k2, r1 - Len(f.buf))
              ELSE [p |-> <<>>, err |-> "invalid"]
  IN  IF remaining <= 0
      THEN [f |-> f, p |-> <<>>, err |-> "EOF"]
      ELSE IF k2 > 0 /\ r1 >= Len(f.buf)
      THEN [f |-> [f EXCEPT !.r = r1 + Len(tail.p)],
            p |-> head \o tail.p, err |-> tail.err]
      ELSE [f |-> [f EXCEPT !.r = r1], p |-> head, err |-> "nil"]

\* File.Written
Written(f) == f.w

\* File.Checksum
Checksum(f) == f.crc

\* a reset that leaves the overflow file's bytes in place
ResetNoTruncate(f) == [f EXCEPT !.w = 0, !.r = 0, !.crc = ZeroWord]

\* a reset that leaves the hasher as it was
ResetOffsets(f) == [f EXCEPT !.w = 0, !.r = 0, !.data = <<>>]

\* File.reset in detail: both offsets and the CRC zeroed, the overflow file
\* (when there is one) truncated to nothing and kept
Reset(f) == [f EXCEPT !.w = 0, !.r = 0, !.crc = ZeroWord, !.data = <<>>]

\* the log of the holder of bf before it has done anything
NoCall ==
  [op |-> "new", len |-> 0, n |-> 0, err |-> "nil", atEnd |-> FALSE,
   prevW |-> 0, prevHashed |-> 0, prevSpill |-> FALSE]

NoLog == [held |-> FALSE, wrote |-> <<>>, read |-> <<>>, hashed |-> 0, last |-> NoCall]

\* the byte strings of length at most n
BytesUpTo(n) == UNION {[1..k -> Bytes] : k \in 0..n}

\* FilePool.Get for this file: its index is received from the limiter
BufGet ==
  /\ ~bio.held
  /\ bio' = [bio EXCEPT !.held = TRUE, !.last.op = "get"]
  /\ UNCHANGED <<avars, ctx, evars, bf, lp, cons>>

\* FilePool.Put(f): f.reset(), then the index goes back to the limiter
BufPut ==
  /\ bio.held
  /\ bf' = Reset(bf)
  /\ bio' = [NoLog EXCEPT !.last = [NoCall EXCEPT !.op = "put",
                                                  !.prevW = Written(bf),
                                                  !.prevHashed = bio.hashed,
                                                  !.prevSpill = bf.data # <<>>]]
  /\ UNCHANGED <<avars, ctx, evars, lp, cons>>

\* the holder writes p to the buffer
BufWrite ==
  /\ bio.held
  /\ \E p \in BytesUpTo(MaxWrite) :
       /\ Len(bio.wrote) + Len(p) <= MaxData
       /\ LET res == Write(bf, p) IN
            /\ bf' = res.f
            /\ bio' = [bio EXCEPT !.wrote = @ \o p,
                                  !.last = [NoCall EXCEPT !.op = "write",
                                                          !.len = Len(p),
                                                          !.n = res.n,
                                                          !.err = res.err]]
  /\ UNCHANGED <<avars, ctx, evars, lp, cons>>

\* the holder writes one byte to f.Hasher()
BufHash ==
  /\ bio.held
  /\ bio.hashed < MaxHash
  /\ \E ch \in Bytes : bf' = [bf EXCEPT !.crc = CrcUpdate(@, ch)]
  /\ bio' = [bio EXCEPT !.hashed = @ + 1, !.last = [NoCall EXCEPT !.op = "hash"]]
  /\ UNCHANGED <<avars, ctx, evars, lp, cons>>

\* the holder reads into a slice of length k
BufRead ==
  /\ bio.held
  /\ \E k \in 0..MaxRead :
       LET res == Read(bf, k) IN
         /\ bf' = res.f
         /\ bio' = [bio EXCEPT !.read = @ \o res.p,
                               !.last = [NoCall EXCEPT !.op = "read",
                                                       !.len = k,
                                                       !.n = Len(res.p),
                                                       !.err = res.err,
                                                       !.atEnd = bf.r = bf.w]]
  /\ UNCHANGED <<avars, ctx, evars, lp, cons>>

(***************************************************************************)
(* The life of one FilePool: New, holders writing and putting back, the    *)
(* world closing or removing overflow files behind its back, Close, and a  *)
(* caller unwrapping the error Close returned.  Files are kept in summary: *)
(* prefix size, bytes written, whether the overflow file was created.      *)
(***************************************************************************)
\* WithArchiverBufferSize(n) applied to o
WithArchiverBufferSize(o, n) == [o EXCEPT !.bufferSize = IF n < 0 THEN 0 ELSE n]

\* the options NewArchiver ends with when the buffer size option is, or is
\* not, among opts
ApplyBufferOption(opt) ==
  IF opt.given THEN WithArchiverBufferSize(NewArchiverOptions, opt.n)
  ELSE NewArchiverOptions

\* a New that makes a pool of any size
NewAnySize(poolSize, bufferSize) ==
  [err |-> "nil",
   files |-> [i \in 1..poolSize |->
                [size |-> IF bufferSize < 0 THEN DefaultBufferSize ELSE bufferSize,
                 w |-> 0, crc |-> <<>>, f |-> FALSE]]]

\* filepool.New(dir, poolSize, bufferSize): the error, and the files made
New(poolSize, bufferSize) ==
  IF poolSize <= 0
  THEN [err |-> "ErrPoolSizeLessThanZero", files |-> <<>>]
  ELSE [err |-> "nil",
        files |-> [i \in 1..poolSize |->
                     [size |-> IF bufferSize < 0 THEN DefaultBufferSize ELSE bufferSize,
                      w |-> 0, crc |-> <<>>, f |-> FALSE]]]

\* File.Write of n bytes, in summary: the overflow file is created when
\* bytes remain once the prefix is full
WriteN(f, n) ==
  [f EXCEPT !.w = @ + n, !.f = @ \/ (n > 0 /\ f.w + n > f.size)]

\* what the world has done to file i's overflow file: closed its descriptor,
\* removed it from disk, or made its directory refuse the unlink
NoEnv == [closed |-> FALSE, disk |-> FALSE, stuck |-> FALSE]

\* f.f.Close()
FileClose(e) == IF e.closed THEN "closed" ELSE "nil"

\* os.Remove(f.f.Name())
FileRemove(e) ==
  IF ~e.disk THEN "enoent" ELSE IF e.stuck THEN "eacces" ELSE "nil"

\* the causes FilePool.Close collects for file i, in order
CloseCauses(fl, e, i) ==
  IF ~fl.f THEN <<>>
  ELSE (IF FileClose(e) # "nil" THEN <<<<i, FileClose(e)>>>> ELSE <<>>)
       \o (IF FileRemove(e) # "nil" /\ ~IsNotExist(FileRemove(e))
           THEN <<<<i, FileRemove(e)>>>> ELSE <<>>)

RECURSIVE CloseLoop(_, _, _)
CloseLoop(fls, env, i) ==
  IF i > Len(fls) THEN <<>>
  ELSE CloseCauses(fls[i], env[i], i) \o CloseLoop(fls, env, i + 1)

\* an error value: nil, or a filePoolCloseError holding causes
NilError == [nil |-> TRUE, e |-> <<>>]

\* FilePool.Close: the error returned and what is left on disk
PoolCloseAll(fls, env) ==
  LET errs == CloseLoop(fls, env, 1)
  IN  [ret |-> IF Len(errs) > 0 THEN [nil |-> FALSE, e |-> errs] ELSE NilError,
       env |-> [i \in DOMAIN env |->
                  IF fls[i].f
                  THEN [env[i] EXCEPT !.closed = TRUE,
                                     !.disk = @ /\ FileRemove(env[i]) # "nil"]
                  ELSE env[i]]]

\* an Unwrap that gives up at once
UnwrapNothing(err) == NilError

\* filePoolCloseError.Unwrap, as errors.Unwrap calls it
Unwrap(err) ==
  IF Len(err.e) > 1 THEN [nil |-> FALSE, e |-> Tail(err.e)] ELSE NilError

NoLife ==
  [pc |-> "off", from |-> "test", n |-> 0, b |-> 0, opt |-> [given |-> FALSE, n |-> 0],
   err |-> "nil", files |-> <<>>, env |-> <<>>, ret |-> NilError, errs |-> <<>>,
   chain |-> 0, seen |-> <<>>]

\* pools made by a test (any size, any buffer size) and pools made by
\* Archive (concurrency > 1, buffer size from the archiver's options)
LifeInputs ==
  {[NoLife EXCEPT !.pc = "new", !.n = n, !.b = b] :
     n \in (-1)..MaxPool, b \in (-1)..MaxPrefix}
  \cup
  {[NoLife EXCEPT !.pc = "new", !.from = "archiver", !.n = n, !.opt = o] :
     n \in 2..MaxPool,
     o \in {[given |-> FALSE, n |-> 0]} \cup [given : {TRUE}, n : (-1)..MaxPrefix]}

\* filepool.New, called by a test or at archiver.go line 112
LifeNew ==
  /\ lp.pc = "new"
  /\ LET b == IF lp.from = "archiver" THEN ApplyBufferOption(lp.opt).bufferSize
              ELSE lp.b
         res == New(lp.n, b)
     IN lp' = [lp EXCEPT !.pc = IF res.err = "nil" THEN "open" ELSE "failed",
                         !.b = b,
                         !.err = res.err,
                         !.files = res.files,
                         !.env = [i \in DOMAIN res.files |-> NoEnv]]
  /\ UNCHANGED <<avars, ctx, evars, bf, bio, cons>>

\* a holder of file i writes n bytes
LifeWrite ==
  /\ lp.pc = "open"
  /\ \E i \in DOMAIN lp.files, n \in 1..MaxData :
       /\ ~lp.env[i].closed
       /\ lp.files[i].w + n <= MaxData
       /\ lp' = [lp EXCEPT !.files[i] = WriteN(@, n),
                           !.env[i].disk = @ \/ (~lp.files[i].f /\ WriteN(lp.files[i], n).f)]
  /\ UNCHANGED <<avars, ctx, evars, bf, bio, cons>>

\* FilePool.Put of file i
LifePut ==
  /\ lp.pc = "open"
  /\ \E i \in DOMAIN lp.files :
       /\ lp.files[i].w > 0
       /\ lp' = [lp EXCEPT !.files[i] = ResetFile(@)]
  /\ UNCHANGED <<avars, ctx, evars, bf, bio, cons>>

\* someone closes the descriptor of an overflow file
EnvClose ==
  /\ lp.pc = "open"
  /\ \E i \in DOMAIN lp.files :
       /\ lp.files[i].f
       /\ ~lp.env[i].closed
       /\ lp' = [lp EXCEPT !.env[i].closed = TRUE]
  /\ UNCHANGED <<avars, ctx, evars, bf, bio, cons>>

\* someone removes an overflow file from the stage directory
EnvRemove ==
  /\ lp.pc = "open"
  /\ \E i \in DOMAIN lp.files :
       /\ lp.env[i].disk
       /\ ~lp.env[i].stuck
       /\ lp' = [lp EXCEPT !.env[i].disk = FALSE]
  /\ UNCHANGED <<avars, ctx, evars, bf, bio, cons>>

\* the stage directory stops allowing the unlink of an overflow file
EnvStick ==
  /\ lp.pc = "open"
  /\ \E i \in DOMAIN lp.files :
       /\ lp.env[i].disk
       /\ ~lp.env[i].stuck
       /\ lp' = [lp EXCEPT !.env[i].stuck = TRUE]
  /\ UNCHANGED <<avars, ctx, evars, bf, bio, cons>>

\* FilePool.Close
LifeClose ==
  /\ lp.pc = "open"
  /\ LET res == PoolCloseAll(lp.files, lp.env)
     IN lp' = [lp EXCEPT !.pc = "closed", !.ret = res.ret, !.errs = res.ret.e,
                         !.env = res.env]
  /\ UNCHANGED <<avars, ctx, evars, bf, bio, cons>>

\* the caller looks at the error it holds and calls errors.Unwrap on it
LifeUnwrap ==
  /\ lp.pc = "closed"
  /\ ~lp.ret.nil
  /\ lp' = [lp EXCEPT !.ret = Unwrap(@), !.chain = @ + 1,
                      !.seen = Append(@, lp.ret.e[1])]
  /\ UNCHANGED <<avars, ctx, evars, bf, bio, cons>>

(***************************************************************************)
(* Specification.                                                          *)
(***************************************************************************)
\* the extractor's options before any is applied: no chown error handler
NoHandler == [concurrency |-> 1, handler |-> "none"]


\* the options a caller passes to NewArchiver
ArchiverOptions ==
  [concurrency : (-1)..MaxConcurrency, method : {Store, Deflate}]

\* the options NewArchiver will be called with and the mapping its caller
\* will pass to Archive
InitArchiver ==
  /\ files \in {S \in SUBSET SourceKeys : Cardinality(S) <= MaxFiles}
  /\ aopt = NewArchiverOptions
  /\ cons \in {[NoCons EXCEPT !.aopts = o] : o \in ArchiverOptions}
  /\ apc = "new"
  /\ zw = <<>>

\* no archiver: a zip file from elsewhere is about to be extracted
InitForeign ==
  /\ files = {}
  /\ aopt = [concurrency |-> 1, method |-> Store, bufferSize |-> 0]
  /\ cons = NoCons
  /\ apc = "foreign"
  /\ zw \in MadeArchives

InitIdle ==
  /\ names = <<>>
  /\ hdrs = <<>>
  /\ ai = 0
  /\ aerr = "nil"
  /\ aret = "none"
  /\ th = <<>>
  /\ m = {}
  /\ fp = NoPool
  /\ awritten = 0
  /\ aentries = 0
  /\ ctx = NewContext
  /\ zr = <<>>
  /\ epc = "off"
  /\ ei = 0
  /\ eerr = "nil"
  /\ eret = "none"
  /\ ew = <<>>
  /\ limiter = 0
  /\ fs = EmptyDisk
  /\ ewritten = 0
  /\ eentries = 0

Init ==
  /\ InitArchiver \/ InitForeign
  /\ InitIdle
  /\ eopt = NoHandler
  /\ bf = newFile(0)
  /\ bio = NoLog
  /\ lp = NoLife

Next ==
  \/ NewArchiver
  \/ ArchiveBegin
  \/ DispatchCheck
  \/ LoopEnd
  \/ CreateDirectory
  \/ CreateSymlinkHeader
  \/ CreateSymlinkWrite
  \/ CreateRegular
  \/ \E t \in Threads : Stage(t)
  \/ \E t \in Threads : EmitHeader(t)
  \/ \E t \in Threads : CopyChunk(t)
  \/ ArchiveReturn
  \/ Cancel
  \/ Close
  \/ NewExtractor
  \/ ExtractBegin
  \/ PhaseOneEntry
  \/ PhaseOneSpawn
  \/ PhaseOneWait
  \/ \E i \in EWorkers : ExtractOpen(i)
  \/ \E i \in EWorkers : ExtractCopy(i)
  \/ PhaseTwoEntry
  \/ PhaseTwoEnd
  \/ PhaseThreeEntry
  \/ PhaseThreeEnd
  \/ ExtractReturn
  \/ CancelExtract

Spec == Init /\ [][Next]_vars

\* filepool.New with one file of prefix size B, and no archiver or extractor
InitPool ==
  /\ InitIdle
  /\ files = {}
  /\ aopt = [concurrency |-> 1, method |-> Store, bufferSize |-> 0]
  /\ apc = "off"
  /\ zw = <<>>
  /\ eopt = NoHandler
  /\ bf \in {newFile(B) : B \in 0..MaxPrefix}
  /\ bio = NoLog
  /\ lp = NoLife
  /\ cons = NoCons

NextPool ==
  \/ BufGet
  \/ BufPut
  \/ BufWrite
  \/ BufHash
  \/ BufRead

SpecPool == InitPool /\ [][NextPool]_vars

\* no archiver, no extractor: one FilePool about to be made
InitLife ==
  /\ InitIdle
  /\ files = {}
  /\ aopt = [concurrency |-> 1, method |-> Store, bufferSize |-> 0]
  /\ apc = "off"
  /\ zw = <<>>
  /\ eopt = NoHandler
  /\ bf = newFile(0)
  /\ bio = NoLog
  /\ lp \in LifeInputs
  /\ cons = NoCons

NextLife ==
  \/ LifeNew
  \/ LifeWrite
  \/ LifePut
  \/ EnvClose
  \/ EnvRemove
  \/ EnvStick
  \/ LifeClose
  \/ LifeUnwrap

SpecLife == InitLife /\ [][NextLife]_vars

\* the extraction, by a user without privileges, of zip files whose entries
\* belong to somebody else, with and without a chown error handler
InitOwn ==
  /\ InitIdle
  /\ files = {}
  /\ aopt = [concurrency |-> 1, method |-> Store, bufferSize |-> 0]
  /\ apc = "foreign"
  /\ zw \in OwnedArchives
  /\ eopt \in [concurrency : {1}, handler : {"none", "ignore", "fail"}]
  /\ bf = newFile(0)
  /\ bio = NoLog
  /\ lp = NoLife
  /\ cons = NoCons

NextOwn ==
  \/ NewExtractor
  \/ ExtractBegin
  \/ PhaseOneEntry
  \/ PhaseOneSpawn
  \/ PhaseOneWait
  \/ \E i \in EWorkers : ExtractOpen(i)
  \/ \E i \in EWorkers : ExtractCopy(i)
  \/ \E i \in EWorkers : HandlerEnter(i)
  \/ \E i \in EWorkers : HandlerReturn(i)
  \/ PhaseTwoEntry
  \/ PhaseTwoEnd
  \/ PhaseThreeEntry
  \/ PhaseThreeEnd
  \/ ExtractReturn

SpecOwn == InitOwn /\ [][NextOwn]_vars

\* the extraction of zip files of directories and regular files whose
\* entries come in any order
InitTree ==
  /\ InitIdle
  /\ files = {}
  /\ aopt = [concurrency |-> 1, method |-> Store, bufferSize |-> 0]
  /\ apc = "foreign"
  /\ zw \in TreeArchives
  /\ eopt = NoHandler
  /\ bf = newFile(0)
  /\ bio = NoLog
  /\ lp = NoLife
  /\ cons = NoCons

NextTree ==
  \/ NewExtractor
  \/ ExtractBegin
  \/ PhaseOneEntry
  \/ PhaseOneSpawn
  \/ PhaseOneWait
  \/ \E i \in EWorkers : ExtractOpen(i)
  \/ \E i \in EWorkers : ExtractCopy(i)
  \/ PhaseTwoEntry
  \/ PhaseTwoEnd
  \/ PhaseThreeEntry
  \/ PhaseThreeEnd
  \/ ExtractReturn
  \/ CancelExtract

SpecTree == InitTree /\ [][NextTree]_vars

\* a step of an Extract call that has begun, by the calling thread or by a
\* worker
ExtractStep ==
  \/ PhaseOneEntry
  \/ PhaseOneSpawn
  \/ PhaseOneWait
  \/ \E i \in EWorkers : ExtractOpen(i)
  \/ \E i \in EWorkers : ExtractCopy(i)
  \/ \E i \in EWorkers : HandlerEnter(i)
  \/ \E i \in EWorkers : HandlerReturn(i)
  \/ PhaseTwoEntry
  \/ PhaseTwoEnd
  \/ PhaseThreeEntry
  \/ PhaseThreeEnd
  \/ ExtractReturn

NextExtract ==
  \/ NewExtractor
  \/ ExtractBegin
  \/ ExtractStep
  \/ CancelExtract

\* the goroutines of an Extract call are scheduled, their file I/O and the
\* chown error handler return: a step of the call that can be taken is taken
FairExtract == InitOwn /\ [][NextExtract]_vars /\ WF_vars(ExtractStep)

\* a step of an Archive call that has begun, by the calling thread or by a
\* worker
ArchiveStep ==
  \/ DispatchCheck
  \/ LoopEnd
  \/ CreateDirectory
  \/ CreateSymlinkHeader
  \/ CreateSymlinkWrite
  \/ CreateRegular
  \/ \E t \in Threads : Stage(t)
  \/ \E t \in Threads : EmitHeader(t)
  \/ \E t \in Threads : CopyChunk(t)
  \/ ArchiveReturn

\* NewArchiver and one Archive call, which the caller may cancel
InitArchive ==
  /\ InitArchiver
  /\ InitIdle
  /\ eopt = NoHandler
  /\ bf = newFile(0)
  /\ bio = NoLog
  /\ lp = NoLife

NextArchive ==
  \/ NewArchiver
  \/ ArchiveBegin
  \/ ArchiveStep
  \/ Cancel

\* the goroutines of a call are scheduled and their file I/O returns: a step
\* of the call that can be taken is taken
FairArchive == InitArchive /\ [][NextArchive]_vars /\ WF_vars(ArchiveStep)

(***************************************************************************)
(* Properties.                                                             *)
(***************************************************************************)
\* Archive has returned nil (the archiver may have been closed since)
ArchiveSucceeded == apc \in {"done", "closed"} /\ aret = "nil"

\* the key whose entry is zw[j]
KeyOf(j) == names[zw[j].i]

KeyLess(j, k) == StringLess(PathString(KeyOf(j)), PathString(KeyOf(k)))

\* the positions of the sorted keys that are not irregular files
RegularIndices == {i \in DOMAIN names : ~IsIrregular(SourceFile(names[i]))}

\* the stream holds the entries in the ascending order of their keys
StreamSorted == \A j, k \in DOMAIN zw : j < k => KeyLess(j, k)

InZipWriter ==
  {t \in Threads : th[t].pc = "copy"} \cup (IF apc = "symlink" THEN {0} ELSE {})

\* C2: at most one thread is inside a call on the zip writer and it holds the
\* mutex; the entry it writes to is the open one, so that no write is lost to
\* another entry's header.
C2_Mutex ==
  (apc \notin {"foreign", "closed"}) =>
    /\ Cardinality(InZipWriter) <= 1
    /\ InZipWriter \subseteq m
    /\ Cardinality(m) <= 1
    /\ \A t \in InZipWriter : ZipCanWrite(zw, EntryOf(t))
    /\ \A j \in DOMAIN zw : zw[j].open => j = Len(zw)
    /\ \A t \in Threads : th[t].err # "closed"
    /\ aerr # "closed"

\* a worker copies its payload while another one waits for the mutex
C2_Witness ==
  \E t, u \in Workers :
    t # u /\ th[t].pc = "copy" /\ t \in m /\ th[u].pc = "lock"

\* the locations of the disk that are not the extraction root or below it
\* (the root directory "/" itself was there before)
Outside == {loc \in DOMAIN fs : loc # <<>> /\ ~IsWithin(Chroot, loc)}

\* Extract has returned
Extracted == epc = "done"

\* C3 as stated: after any Extract call nothing has been created at a
\* location that lies outside the extraction root.
C3_NoEscape == Extracted => Outside = {}

\* S4: the symlink root/inner with the target "../", then the regular file
\* root/inner/vuln
S4Archive ==
  << MadeEntry(<<"root", "inner">>, "sym", <<"..">>, 0, ""),
     MadeEntry(<<"root", "inner", "vuln">>, "reg", <<>>, 1, "V") >>

\* the locations that have the name vuln
Vulns == {loc \in DOMAIN fs : loc # <<>> /\ loc[Len(loc)] = "vuln"}

\* where the entry root/inner/vuln lies when root/inner is a directory, and
\* where it would lie through the symlink
VulnLiteral == <<"c", "root", "inner", "vuln">>
VulnThroughLink == <<"c", "vuln">>

\* C4 as stated: Extract of S4 returns an error and no file named vuln
\* exists anywhere afterwards.
C4_Original == (zr = S4Archive /\ Extracted) => (eret # "nil" /\ Vulns = {})

\* C4, amended: Extract of S4 returns an error; no file named vuln exists
\* outside the root or where the symlink would have led; unless the call was
\* cancelled, the file has been extracted to root/inner/vuln below a real
\* directory root/inner and is still there.
C4_Scenario ==
  (zr = S4Archive /\ Extracted) =>
    /\ eret # "nil"
    /\ Vulns \subseteq {VulnLiteral}
    /\ VulnThroughLink \notin DOMAIN fs
    /\ ~ctx.parent => (Vulns = {VulnLiteral} /\ fs[Parent(VulnLiteral)].kind = "dir")

C4_Witness ==
  /\ zr = S4Archive
  /\ Extracted
  /\ eret = "enotempty"
  /\ Vulns = {VulnLiteral}

\* the entries of the kinds the first loop of Extract completes
PhaseOneEntries == {i \in DOMAIN zr : zr[i].type \in {"dir", "reg"}}
SymlinkEntries == {i \in DOMAIN zr : zr[i].type = "sym"}

\* the symlinks on the disk
SymlinksOf(f) == {loc \in DOMAIN f : f[loc].kind = "sym"}

\* C5: while the symlinks are made (phase 2) and the directories' metadata
\* is rewritten (phase 3) every worker of phase 1 has returned and every
\* directory and regular file is counted as extracted; in phase 3 every
\* symlink is counted too; and a step makes a symlink only in phase 2.
C5_Phases ==
  /\ [](epc \in {"phase2", "phase3"} =>
          /\ AllExtracted
          /\ limiter = 0
          /\ eentries >= Cardinality(PhaseOneEntries))
  /\ [](epc = "phase3" =>
          eentries = Cardinality(PhaseOneEntries) + Cardinality(SymlinkEntries))
  /\ [][SymlinksOf(fs') # SymlinksOf(fs) => (epc = "phase2" /\ AllExtracted)]_vars

\* phase 2 has made a symlink after a worker had extracted a file
C5_Witness ==
  /\ epc \in {"phase2", "phase3"}
  /\ SymlinksOf(fs) # {}
  /\ \E i \in EWorkers : ew[i].pc = "done"

\* the paths the keys of the mapping name
KeyPaths == {Abs(k) : k \in files}

\* the mapping holds regular files, directories and symlinks inside chroot
OnlyRegularInside ==
  \A k \in files :
    /\ SourceFile(k).type \in {"reg", "dir", "sym"}
    /\ IsWithin(Chroot, Abs(k))

\* every key below chroot has its parent directory in the mapping too
ClosedUnderParents ==
  \A k \in files :
    Abs(k) # Chroot =>
      \/ Parent(Abs(k)) = Chroot
      \/ \E d \in files : Abs(d) = Parent(Abs(k)) /\ SourceFile(d).type = "dir"

KindOf(type) == IF type = "reg" THEN "file" ELSE type

\* the extracted tree equals the mapping
TreeEqual ==
  /\ {loc \in DOMAIN fs : IsWithin(Chroot, loc)} \ {Chroot} = KeyPaths \ {Chroot}
  /\ Outside = {}
  /\ \A k \in files :
       LET fi == SourceFile(k)
           n == fs[Abs(k)]
       IN /\ n.kind = KindOf(fi.type)
          /\ n.perm = fi.perm
          /\ n.mtime = ZipTime(fi.mtime)
          /\ n.body = fi.content
          /\ n.link = fi.link

\* the archive of files has been extracted without an error
RoundTrip == apc = "closed" /\ Extracted /\ eret = "nil"

\* C6 as stated: for every mapping of regular files, directories and
\* symlinks inside chroot the extracted archive equals the mapping.
C6_Original == (RoundTrip /\ OnlyRegularInside) => TreeEqual

\* C6, amended: for every mapping of regular files, directories and symlinks
\* inside chroot that also holds the parent directories of its keys, the
\* extracted archive equals the mapping in names, types, permission bits,
\* mtimes in whole seconds, symlink targets and contents (the extractor makes
\* a parent directory that the mapping leaves out, with default metadata).
C6_RoundTrip == (RoundTrip /\ OnlyRegularInside /\ ClosedUnderParents) => TreeEqual

C6_Witness ==
  /\ RoundTrip
  /\ files = {<<"c", "a">>, <<"c", "a", "f">>, <<"c", "l">>}
  /\ aopt.concurrency = 2
  /\ eopt.concurrency = 2
  /\ TreeEqual

\* the regular-file entries of keys that deflate inflates
Inflated ==
  {j \in DOMAIN zw : /\ zw[j].type = "reg"
                     /\ aopt.method = Deflate
                     /\ SourceFile(KeyOf(j)).zsize > SourceFile(KeyOf(j)).size}

StoredAsIs(j) ==
  /\ zw[j].method = Store
  /\ Recorded(zw[j], SourceFile(KeyOf(j))).csize = Recorded(zw[j], SourceFile(KeyOf(j))).usize

C8_Chroot ==
  (apc \notin {"foreign"}) =>
    /\ \A j \in DOMAIN zw :
         /\ IsWithin(Chroot, Abs(KeyOf(j)))
         /\ \A c \in DOMAIN zw[j].name : zw[j].name[c] # ".."
    /\ ArchiveSucceeded =>
         \A k \in files : ~IsIrregular(SourceFile(k)) => IsWithin(Chroot, Abs(k))

\* the entries whose extraction was counted
EntriesOf(q) == {i \in DOMAIN q : q[i].type # "irregular"}

\* the caller cancelled after Written() had reported a byte: every
\* countWriter.Write looks at the context first, so that the byte count of a
\* cancelled call is the one the caller saw when it cancelled
CancelledAfterBytes(pc, written) == pc = "done" /\ ctx.parent /\ written > 0

C10_Drained ==
  /\ aret # "none" => \A t \in Workers : th[t].pc \in {"none", "done"}
  /\ eret # "none" => (limiter = 0 /\ \A i \in EWorkers : ew[i].pc \in {"none", "done"})

\* Archive has returned the outside-chroot error of its loop after it had
\* started a worker
C10_Witness ==
  /\ aret = "outside"
  /\ \E t \in Workers : th[t].pc = "done"

\* C11: once Archive has returned, whatever it returned, no overflow file
\* fastzip_NN of its pool is left in the stage directory.
C11_NoSpill == aret # "none" => \A i \in DOMAIN fp.files : ~fp.files[i].f

\* a cancelled Archive whose workers had staged payload in overflow files
C11_Witness == aret = "canceled" /\ fp.closed /\ awritten > 0

RECURSIVE PayloadBlocks(_)
\* the blocks of regular-file payload the zip writer has accepted
PayloadBlocks(w) ==
  IF w = <<>> THEN 0
  ELSE (IF Head(w).type = "reg" THEN Head(w).got ELSE 0) + PayloadBlocks(Tail(w))

\* the context the counting writers look at is cancelled
Cancelled == ctx.parent \/ ctx.gerr # "nil"

\* thread t of Archive makes its next countWriter.Write in this step
ArchiveWrites(t) == th[t].pc = "copy" /\ th'[t] # th[t]

\* worker i of Extract makes its next countWriter.Write in this step, the
\* payload being intact
ExtractWrites(i) ==
  /\ ew[i].pc = "copy"
  /\ ew'[i] # ew[i]
  /\ ~(ew[i].left = 1 /\ ~ChecksumOk(zr[i]))

\* C12: a countWriter.Write that begins with the context cancelled returns
\* the context's error, writes nothing and leaves the byte count alone; one
\* that begins with the context live writes and then adds exactly what the
\* underlying writer accepted (one block here).
C12_CountWriter ==
  [][ /\ \A t \in DOMAIN th :
           ArchiveWrites(t) =>
             IF Cancelled
             THEN /\ zw' = zw
                  /\ awritten' = awritten
                  /\ IF t = 0 THEN aerr' = "canceled" ELSE th'[t].err = "canceled"
             ELSE /\ PayloadBlocks(zw') = PayloadBlocks(zw) + 1
                  /\ awritten' = awritten + 1
      /\ \A i \in DOMAIN ew :
           ExtractWrites(i) =>
             IF Cancelled
             THEN /\ fs' = fs
                  /\ ewritten' = ewritten
                  /\ ew'[i].err = "canceled"
             ELSE /\ ewritten' = ewritten + 1
                  /\ ew[i].loc \in DOMAIN fs => fs'[ew[i].loc].body = zr[i].body
    ]_vars

\* a worker of a running Archive has had its write refused after the caller
\* cancelled
C12_Witness ==
  /\ apc \in {"loop", "create", "return"}
  /\ ctx.parent
  /\ \E t \in Workers : th[t].pc = "done" /\ th[t].err = "canceled"

\* the mapping holds nothing but directories and empty regular files
OnlyDirsAndEmpty ==
  \A k \in files :
    \/ SourceFile(k).type = "dir"
    \/ SourceFile(k).type = "reg" /\ SourceFile(k).size = 0

\* C13: the archiver's byte count is at every moment the number of blocks of
\* regular-file payload written through a countWriter: headers, directory
\* entries and symlink targets add nothing, it changes only in a step in
\* which a thread writes the payload of a regular file, and it is 0 after
\* archiving only directories and empty files.
C13_PayloadOnly ==
  /\ [](apc # "foreign" => awritten = PayloadBlocks(zw))
  /\ []((ArchiveSucceeded /\ OnlyDirsAndEmpty) => awritten = 0)
  /\ [][awritten' # awritten =>
          \E t \in DOMAIN th : ArchiveWrites(t) /\ hdrs[EntryOf(t)].type = "reg"]_vars

\* an archive of a directory and a symlink, the target written, no byte
\* counted
C13_Witness ==
  /\ ArchiveSucceeded
  /\ awritten = 0
  /\ \E j \in DOMAIN zw : zw[j].type = "sym" /\ zw[j].got = 1
  /\ \E j \in DOMAIN zw : zw[j].type = "dir"

\* the keys whose mode is regular, directory or symlink
CountedKeys == {k \in files : SourceFile(k).type \in {"reg", "dir", "sym"}}

\* C14: after an Archive that returned nil the entry count of the (fresh)
\* archiver is the number of keys whose mode is regular, directory or
\* symlink, whatever the interleaving and whichever path a regular file took.
C14_Entries == ArchiveSucceeded => aentries = Cardinality(CountedKeys)

\* three entries counted, one of them a regular file that took the store
\* fallback after its staged compression
C14_Witness ==
  /\ ArchiveSucceeded
  /\ fp.active
  /\ aentries = 3
  /\ \E j \in Inflated : StoredAsIs(j)
  /\ \E j \in DOMAIN zw : zw[j].raw

\* what Written() of the archiver and of the extractor load
Counters == <<awritten, aentries, ewritten, eentries>>

\* C15: no step lowers a counter and none is ever negative, so that a
\* Written() at any moment reads values between 0 and the totals the
\* operation ends with.
C15_Monotone ==
  /\ [](\A c \in DOMAIN Counters : Counters[c] >= 0)
  /\ [][\A c \in DOMAIN Counters : Counters'[c] >= Counters[c]]_vars

\* an Archive in mid-operation: both counters have moved and workers are
\* still writing
C15_Witness ==
  /\ apc \in {"loop", "create"}
  /\ awritten > 0
  /\ aentries > 0
  /\ \E t \in Workers : th[t].pc \in {"get", "lock", "copy"}

\* the IEEE CRC-32 of the bytes of a file, as the model writes a CRC: the
\* contents that went through the hasher
Crc32(fi) == IF fi.size = 0 THEN <<>> ELSE <<fi.content>>

\* C16: the CRC recorded for a regular-file entry is the CRC of that file's
\* bytes; an entry written with CreateHeaderRaw carries the CRC of its own
\* file only, and a buffer that waits in the pool has an empty hasher.
C16_Crc ==
  (apc # "foreign") =>
    /\ \A j \in DOMAIN zw :
         zw[j].raw => zw[j].crc = Crc32(SourceFile(KeyOf(j)))
    /\ ArchiveSucceeded =>
         \A j \in DOMAIN zw :
           zw[j].type = "reg" => RecordedCrc(zw[j]) = Crc32(SourceFile(KeyOf(j)))
    /\ \A k \in DOMAIN fp.limiter : fp.files[fp.limiter[k]].crc = <<>>

\* three files staged in a pool of two buffers: one buffer had a previous
\* holder
C16_Witness ==
  /\ ArchiveSucceeded
  /\ Len(fp.files) = 2
  /\ Cardinality({j \in DOMAIN zw : zw[j].raw}) = 3

\* lstat(path).mtime, 0 when there is nothing to stat
MtimeAt(path) ==
  LET r == Resolve(fs, path, FALSE)
  IN IF r.err = "nil" /\ r.loc \in DOMAIN fs THEN fs[r.loc].mtime ELSE 0

\* C17: after an Extract that returned nil every directory entry of the
\* archive has, on the disk, the mtime stored in the archive (whole seconds),
\* also when files or symlinks were created in the directory or when it
\* lies in another directory of the archive.
C17_DirMtime ==
  (Extracted /\ eret = "nil") =>
    \A i \in DOMAIN zr :
      zr[i].type = "dir" => MtimeAt(EntryPath(zr[i])) = zr[i].modified

\* a directory of the archive in which phase 2 has made a symlink and which
\* holds another directory of the archive
C17_Witness ==
  /\ Extracted
  /\ eret = "nil"
  /\ \E i, j, k \in DOMAIN zr :
       /\ zr[i].type = "dir" /\ zr[j].type = "sym" /\ zr[k].type = "dir"
       /\ Parent(EntryPath(zr[j])) = EntryPath(zr[i])
       /\ Parent(EntryPath(zr[k])) = EntryPath(zr[i])
       /\ fs[EntryPath(zr[i])].kind = "dir"
       /\ EntryPath(zr[j]) \in DOMAIN fs
       /\ fs[EntryPath(zr[j])].kind = "sym"

\* the workers that hold a buffer of the pool, and the buffers on loan
Holders == {t \in Workers : th[t].buf # 0}
OnLoan == {th[t].buf : t \in Holders}

\* the buffers that wait in the limiter
Free == {fp.limiter[k] : k \in DOMAIN fp.limiter}

\* C18: no buffer is held by two workers, a buffer is either on loan or in
\* the limiter (once), at most N are on loan, and a worker's Get can return
\* exactly when fewer than N are on loan.
C18_Pool ==
  (fp.active /\ ~fp.closed) =>
    /\ \A t, u \in Holders : th[t].buf = th[u].buf => t = u
    /\ Cardinality(OnLoan) <= Len(fp.files)
    /\ OnLoan \cap Free = {}
    /\ OnLoan \cup Free = DOMAIN fp.files
    /\ Len(fp.limiter) = Cardinality(Free)
    /\ \A t \in Workers :
         th[t].pc = "get" => (ENABLED Stage(t) <=> Cardinality(OnLoan) < Len(fp.files))

\* every buffer is on loan and a worker waits in Get
C18_Witness ==
  /\ fp.active
  /\ Cardinality(OnLoan) = Len(fp.files)
  /\ \E t \in Workers : th[t].pc = "get"

\* C19: after Put, the holder that next gets the file sees Written() = 0,
\* Checksum() = 0 and io.EOF from Read at once (for any slice length),
\* whatever the holder before wrote or hashed, spilled or not.
C19_Reset ==
  bio.last.op = "get" =>
    /\ Written(bf) = 0
    /\ Checksum(bf) = ZeroWord
    /\ \A k \in 0..MaxRead : Read(bf, k).err = "EOF" /\ Read(bf, k).p = <<>>

\* a file is taken whose last holder filled the prefix, spilled and hashed
C19_Witness ==
  /\ bio.last.op = "get"
  /\ bio.last.prevSpill
  /\ bio.last.prevW = MaxData
  /\ bio.last.prevHashed = MaxHash
  /\ bf.f
  /\ bf.size > 0
  /\ \E j \in DOMAIN bf.buf : bf.buf[j] \in Bytes

\* C20: for every prefix size, Write returns len(p) and no error; the bytes
\* read so far are the first bytes written, in order, across the boundary
\* between prefix and overflow file; and Read returns io.EOF exactly when
\* the read offset had reached the write offset (otherwise it returns
\* bytes, when given room for any).
C20_Stream ==
  bio.held =>
    /\ Written(bf) = Len(bio.wrote)
    /\ bf.r = Len(bio.read)
    /\ bio.read = SubSeq(bio.wrote, 1, Len(bio.read))
    /\ bio.last.op = "write" => bio.last.n = bio.last.len /\ bio.last.err = "nil"
    /\ bio.last.op = "read" =>
         /\ bio.last.err = "EOF" <=> bio.last.atEnd
         /\ bio.last.err \in {"nil", "EOF"}
         /\ (~bio.last.atEnd /\ bio.last.len > 0) => bio.last.n > 0

\* one Read call has returned bytes from both sides of the boundary, and
\* with it everything written has been read back
C20_Witness ==
  /\ bio.held
  /\ bf.size > 0
  /\ bio.last.op = "read"
  /\ bio.last.n > bf.size
  /\ bf.r < bio.last.n + bf.size
  /\ Len(bio.wrote) = MaxData
  /\ bio.read = bio.wrote
  /\ \E j, k \in DOMAIN bio.wrote : bio.wrote[j] # bio.wrote[k]

\* C21 as stated: whoever holds the buffer, its spill file is on disk
\* exactly when the holder has written more than the prefix holds.
C21_Original == bio.held => (bf.f <=> Len(bio.wrote) > bf.size)

\* C21: a holder that has written more than the prefix holds has a spill
\* file; the spill file holds bytes exactly when the present holder has
\* written more than the prefix holds; the file comes into being only by a
\* write that exceeds the prefix, and once there it stays, through Put and
\* for every later holder, empty until that holder exceeds the prefix too.
C21_Spill ==
  /\ [](Len(bio.wrote) > bf.size => bf.f)
  /\ [](bf.data # <<>> <=> Len(bio.wrote) > bf.size)
  /\ [](bf.data # <<>> => bf.f)
  /\ [][bf.f => bf'.f]_vars
  /\ [][(~bf.f /\ bf'.f) => (bio'.last.op = "write" /\ Len(bio'.wrote) > bf.size)]_vars

\* a later holder has written within the prefix of a buffer whose spill
\* file an earlier holder created
C21_Witness ==
  /\ bio.held
  /\ bio.last.op = "write"
  /\ bio.wrote # <<>>
  /\ Len(bio.wrote) <= bf.size
  /\ bf.f
  /\ bf.data = <<>>

\* the per-file operations of Close that fail: closing a descriptor that
\* was closed already, unlinking a file that is there and may not be removed
FailedCloses == {i \in DOMAIN lp.files : lp.files[i].f /\ lp.env[i].closed}

FailedUnlinks ==
  {i \in DOMAIN lp.files : lp.files[i].f /\ lp.env[i].disk /\ lp.env[i].stuck}

\* C22: Close returns nil exactly when no close and no unlink failed (an
\* overflow file already missing is no failure) and otherwise one error
\* holding as many causes as operations failed; every overflow file whose
\* unlink did not fail is gone afterwards; and calling errors.Unwrap again
\* and again on the error passes the causes one by one, in order, and
\* reaches nil after exactly that many calls.
C22_Close ==
  /\ [][(lp.pc = "open" /\ lp'.pc = "closed") =>
          LET k == Cardinality(FailedCloses) + Cardinality(FailedUnlinks)
          IN  /\ Len(lp'.errs) = k
              /\ lp'.ret.nil <=> k = 0
              /\ ~lp'.ret.nil => lp'.ret.e = lp'.errs
              /\ \A i \in DOMAIN lp.files :
                    (lp.files[i].f /\ i \notin FailedUnlinks) => ~lp'.env[i].disk]_vars
  /\ [](lp.pc = "closed" =>
          /\ lp.chain + Len(lp.ret.e) = Len(lp.errs)
          /\ lp.seen = SubSeq(lp.errs, 1, lp.chain)
          /\ lp.ret.nil <=> lp.chain = Len(lp.errs))

\* Close met a descriptor closed already and an unlink that failed, removed
\* another file, and the error it returned has been unwrapped to nil
C22_Witness ==
  /\ lp.pc = "closed"
  /\ lp.ret.nil
  /\ lp.chain = 3
  /\ lp.seen = lp.errs
  /\ \E j \in DOMAIN lp.errs : lp.errs[j][2] = "closed"
  /\ \E j \in DOMAIN lp.errs : lp.errs[j][2] = "eacces"
  /\ \E i \in DOMAIN lp.files : lp.files[i].f /\ ~lp.env[i].disk /\ ~lp.env[i].stuck

\* a goroutine of the group returns a non-nil error in this step
ArchiveWorkerFails(t) ==
  t \in DOMAIN th /\ t \in DOMAIN th' /\ th[t].err = "nil" /\ th'[t].err # "nil"

ExtractWorkerFails(i) ==
  i \in DOMAIN ew /\ i \in DOMAIN ew' /\ ew[i].err = "nil" /\ ew'[i].err # "nil"

\* the group's error after a step in which a goroutine returned err
FirstKept(err) ==
  /\ ctx'.gerr = IF ctx.gerr = "nil" THEN err ELSE ctx.gerr
  /\ ctx'.parent \/ ctx'.gerr # "nil"

\* C23: a worker that returns an error cancels the shared context; the
\* group keeps the error of the worker that failed first to the end of the
\* call; and Archive (resp. Extract) returns that error, whatever its
\* dispatch loop had set out to return, the cancellation it saw included.
C23_FirstError ==
  /\ [][\A t \in 1..MaxFiles : ArchiveWorkerFails(t) => FirstKept(th'[t].err)]_vars
  /\ [][\A i \in 1..MaxEntries : ExtractWorkerFails(i) => FirstKept(ew'[i].err)]_vars
  /\ [][(ctx.gerr # "nil" /\ ctx'.gerr # ctx.gerr) => epc = "idle"]_vars
  /\ [][(aret = "none" /\ aret' # "none" /\ ctx.gerr # "nil") => aret' = ctx.gerr]_vars
  /\ [][(eret = "none" /\ eret' # "none" /\ ctx.gerr # "nil") => eret' = ctx.gerr]_vars

\* a worker could not read its file, a later worker was stopped by the
\* cancellation that followed, the dispatch loop saw that cancellation too,
\* and Archive returned the first worker's error
C23_Witness ==
  /\ aret = "ioerr"
  /\ aerr = "canceled"
  /\ \E t \in Workers : th[t].err = "canceled"

\* C24: the prefix of the buffers of a pool made by Archive is the default
\* of 2 MiB when the buffer size option is negative or was not given, and
\* the option's value otherwise (0: no prefix, everything spills).
C24_Prefix ==
  (lp.pc = "open" /\ lp.from = "archiver") =>
    \A i \in DOMAIN lp.files :
      lp.files[i].size = IF ~lp.opt.given \/ lp.opt.n < 0 THEN DefaultBufferSize
                         ELSE lp.opt.n

\* the entries for which the chown error handler has been called
HandlerCalls == {i \in DOMAIN ew : ew[i].called}

\* C25: the chown error handler is called only for an entry that has a
\* unix field and whose lchown failed, and only when one is configured;
\* Extract returns the handler's error when the handler was called and
\* returned one, and nil otherwise (no handler, or a handler that returns
\* nil); and when it returns nil every entry has been extracted, the handler
\* having been asked about each one whose lchown failed.
C25_Chown ==
  /\ \A i \in HandlerCalls :
        i \in DOMAIN zr /\ zr[i].unix = "other" /\ eopt.handler # "none"
  /\ epc = "done" =>
        /\ eret = IF eopt.handler = "fail" /\ HandlerCalls # {}
                  THEN "handlererr" ELSE "nil"
        /\ eret = "nil" =>
              /\ eentries = Len(zr)
              /\ \A i \in DOMAIN zr :
                    /\ Exists(fs, EntryPath(zr[i]))
                    /\ (zr[i].unix = "other" /\ eopt.handler # "none") => i \in HandlerCalls

\* Extract has returned the error of a handler that was called for one
\* entry and not for another whose lchown succeeded or that had no field
C25_Witness ==
  /\ epc = "done"
  /\ eopt.handler = "fail"
  /\ eret = "handlererr"
  /\ HandlerCalls # {}
  /\ \E j \in DOMAIN zr : zr[j].unix # "other" /\ ew[j].pc = "done" /\ ew[j].err = "nil"

\* the workers inside the handler
InHandler == {i \in DOMAIN ew : ew[i].pc = "handler"}

\* C26: at most one call of the chown error handler is in progress at any
\* time, and a worker that has come to e.m.Lock() while one is in progress
\* waits.
C26_OneHandler ==
  /\ Cardinality(InHandler) <= 1
  /\ \A i \in DOMAIN ew :
        (ew[i].pc = "chown" /\ InHandler # {}) => ~ENABLED HandlerEnter(i)

\* one worker is inside the handler while another waits for e.m
C26_Witness ==
  \E i, j \in DOMAIN ew : ew[i].pc = "handler" /\ ew[j].pc = "chown"

\* the dispatch loop of Archive stands at a key whose file is a socket, a
\* device or a named pipe, and moves in this step
ArchiveSkips ==
  /\ apc = "loop"
  /\ ai <= Len(names)
  /\ SourceFile(names[ai]).type = "irregular"
  /\ ai' # ai

\* a loop of Extract stands at such an entry, and moves in this step
ExtractSkips ==
  /\ epc \in {"phase1", "phase2", "phase3"}
  /\ ei <= Len(zr)
  /\ zr[ei].type = "irregular"
  /\ ei' # ei

C28_New ==
  /\ [](lp.pc \notin {"off", "new"} =>
          /\ lp.err = "ErrPoolSizeLessThanZero" <=> lp.n <= 0
          /\ lp.err \in {"nil", "ErrPoolSizeLessThanZero"}
          /\ lp.pc = "failed" <=> lp.err # "nil"
          /\ Len(lp.files) = IF lp.n <= 0 THEN 0 ELSE lp.n)
  /\ [][(lp.pc = "new" /\ lp'.pc = "open") =>
          \A i \in DOMAIN lp'.files :
            ~lp'.files[i].f /\ ~lp'.env[i].disk /\ lp'.files[i].w = 0]_vars
  /\ [][\A i \in DOMAIN lp.files :
          (~lp.env[i].disk /\ lp'.env[i].disk) =>
            (lp.files[i].w <= lp.files[i].size /\ lp'.files[i].w > lp.files[i].size)]_vars
  /\ [](\A i \in DOMAIN lp.files : lp.files[i].w > lp.files[i].size => lp.files[i].f)

\* two files of a pool have been written to: one within its prefix, with
\* nothing on disk, the other beyond it, with its overflow file on disk
C28_Witness ==
  /\ lp.pc = "open"
  /\ \E i, j \in DOMAIN lp.files :
        /\ lp.files[i].w > 0
        /\ lp.files[i].w <= lp.files[i].size
        /\ ~lp.files[i].f
        /\ ~lp.env[i].disk
        /\ lp.files[j].w > lp.files[j].size
        /\ lp.env[j].disk

\* C29: NewArchiver and NewExtractor called with a concurrency option n
\* return ErrMinConcurrency and no instance when n <= 0, and for n >= 1 an
\* instance whose concurrency is n; nothing is archived or extracted without
\* an instance; and an Archive of files that are readable and inside the
\* chroot, under a context nobody cancels, returns nil whatever the accepted
\* n, larger than the number of files or not.
C29_Concurrency ==
  /\ [][(apc = "new" /\ apc' # "new") =>
          IF cons.aopts.concurrency <= 0
          THEN apc' = "invalid" /\ cons'.aerr = "ErrMinConcurrency"
          ELSE /\ apc' = "idle"
               /\ cons'.aerr = "nil"
               /\ aopt'.concurrency = cons.aopts.concurrency]_vars
  /\ [][(epc = "off" /\ epc' # "off") =>
          IF cons'.eopts[1] <= 0
          THEN epc' = "invalid" /\ cons'.eerr = "ErrMinConcurrency"
          ELSE /\ epc' = "idle"
               /\ cons'.eerr = "nil"
               /\ eopt'.concurrency = cons'.eopts[1]]_vars
  /\ [](apc = "invalid" => aret = "none" /\ zw = <<>> /\ epc = "off")
  /\ [](epc = "invalid" => eret = "none" /\ zr = <<>> /\ fs = EmptyDisk)
  /\ []((/\ aret # "none"
          /\ ~ctx.parent
          /\ \A k \in files : SourceFile(k).readable /\ InsideChroot(Abs(k)))
         => aret = "nil")

\* an Archiver made with a concurrency above the number of files has
\* archived them, and NewExtractor has then refused a concurrency of 0
C29_Witness ==
  /\ cons.aopts.concurrency > Cardinality(files)
  /\ files # {}
  /\ aret = "nil"
  /\ epc = "invalid"
  /\ cons.eopts = <<0>>
  /\ cons.eerr = "ErrMinConcurrency"

\* the kernel, resolving path on disk f, follows a symlink in a component
\* before the last: Extract starts from a disk without symlinks, so it is
\* one this call has made, and for an entry of another name
ThroughLink(f, path) ==
  \E k \in 1..(Len(path) - 1) :
    LET r == Resolve(f, SubSeq(path, 1, k), FALSE)
    IN r.err = "nil" /\ Exists(f, r.loc) /\ f[r.loc].kind = "sym"

\* this step is one of the entry zr[i], by the caller's loop or by the
\* entry's worker, and it has changed the disk
Operated(i) ==
  /\ fs' # fs
  /\ \/ ew'[i] # ew[i]
     \/ ei = i /\ (ei' # ei \/ epc' # epc)

\* C30 as stated: no step of Extract that changes the disk for an entry
\* (ancestor creation, removal, file or symlink creation, metadata update)
\* resolves the entry's path through a symlink that the same call has made,
\* the steps of phase 2 for a symlink entry below an earlier symlink entry
\* included.
C30_NoTraversal ==
  [][\A i \in DOMAIN ew \cap DOMAIN ew' :
       Operated(i) => ~ThroughLink(fs, EntryPath(zr[i]))]_vars

\* nothing on the disk is a symlink, and every directory has the mode and
\* the time of its making: no entry's metadata has been applied to it
NoLinkNoMetadata ==
  \A loc \in DOMAIN fs :
    /\ fs[loc].kind # "sym"
    /\ fs[loc].kind = "dir" => (fs[loc].mtime = Now /\ fs[loc].perm = DirPerm)

\* a worker of a regular file has returned an error
WorkerFailed == \E i \in DOMAIN ew : ew[i].pc = "done" /\ ew[i].err # "nil"

\* C31: when a step of phase 1 fails, the first loop with an error or a
\* worker of a regular file, Extract goes to its return without entering
\* the second or third loop, so no symlink is made and no directory gets
\* its metadata again, and what it returns is an error.
C31_PhaseOneFails ==
  /\ [](epc \in {"phase1", "acquire"} => NoLinkNoMetadata)
  /\ [][(epc \in {"phase1", "acquire"} /\ epc' \notin {"phase1", "acquire", "phase2"})
          => (epc' = "return" /\ eerr' # "nil")]_vars
  /\ [][(epc = "phase1" /\ epc' = "phase2") => (~WorkerFailed /\ eerr = "nil")]_vars
  /\ [][(epc = "return" /\ NoLinkNoMetadata)
          => (NoLinkNoMetadata' /\ epc' \in {"return", "done"})]_vars
  /\ [][(epc = "return" /\ epc' = "done" /\ (eerr # "nil" \/ WorkerFailed))
          => eret' # "nil"]_vars
  /\ [](WorkerFailed =>
          /\ epc \notin {"phase2", "phase3"}
          /\ NoLinkNoMetadata
          /\ epc = "done" => eret # "nil")

\* Extract has returned the error of a worker for an archive that has a
\* symlink and a directory among its entries, after the first loop had gone
\* through all of them
C31_Witness ==
  /\ epc = "done"
  /\ WorkerFailed
  /\ ei > Len(zr)
  /\ \E i \in DOMAIN zr : zr[i].type = "sym"
  /\ \E i \in DOMAIN zr : zr[i].type = "dir"
  /\ eret # "nil"

\* the workers of regular files that have been started and have not returned
LiveWorkers == {i \in DOMAIN ew : ew[i].pc \notin {"none", "done"}}

\* C32: during Extract the workers that exist are as many as the permits
\* taken and never more than the concurrency of the options; a worker is
\* started only in a step that takes a permit that was free; and while all
\* permits are taken the first loop, waiting to start a worker, does not move.
C32_Limiter ==
  /\ [](epc \notin {"off", "invalid", "idle"} =>
          /\ Cardinality(LiveWorkers) = limiter
          /\ limiter <= eopt.concurrency)
  /\ [][\A i \in DOMAIN ew \cap DOMAIN ew' :
          (ew[i].pc = "none" /\ ew'[i].pc # "none") =>
            /\ epc = "acquire" /\ ei = i
            /\ limiter < eopt.concurrency
            /\ limiter' = limiter + 1]_vars
  /\ [][(epc = "acquire" /\ Cardinality(LiveWorkers) >= eopt.concurrency) =>
          (epc' = "acquire" /\ ei' = ei /\ ew'[ei].pc = "none")]_vars

\* with a concurrency of 2, two workers exist and the first loop waits for
\* a permit to start a third
C32_Witness ==
  /\ epc = "acquire"
  /\ eopt.concurrency = 2
  /\ Cardinality(LiveWorkers) = 2
  /\ limiter = 2

\* the concurrency Archive works with: the configured one, or the number of
\* keys of the mapping when that is smaller
EffectiveConcurrency ==
  IF Cardinality(files) < aopt.concurrency THEN Cardinality(files)
  ELSE aopt.concurrency

\* the file of names[i] can go the way of the pool: the pool is there, the
\* file has a payload and so gets the configured method, and that method is
\* the one NewArchiver registered a compressor for
PoolRoute(i) ==
  /\ EffectiveConcurrency > 1
  /\ SourceFile(names[i]).type = "reg"
  /\ SourceFile(names[i]).size > 0
  /\ aopt.method = Deflate

\* C33: an entry is emitted raw, and a pool buffer is written to, only for
\* a regular file when the effective concurrency is above 1 and the file's
\* method has a registered compressor; every other regular file takes the
\* conventional route, on which the mutex is taken before the header is
\* written and let go only when createFile ends, so it is held for every
\* block of the copy.
C33_Route ==
  /\ [](apc \notin {"foreign", "new", "invalid"} =>
          /\ \A k \in DOMAIN zw : zw[k].raw => PoolRoute(zw[k].i)
          /\ \A idx \in DOMAIN fp.files :
               fp.files[idx].w > 0 => (EffectiveConcurrency > 1 /\ aopt.method = Deflate)
          /\ \A t \in Threads :
               (th[t].pc \in {"lock", "copy"} /\ ~PoolRoute(EntryOf(t)))
                 => th[t].route = "simple"
          /\ \A t \in Threads :
               (th[t].pc = "copy" /\ th[t].route = "simple") => m = {t})
  /\ [][\A t \in DOMAIN th \cap DOMAIN th' :
          /\ (th[t].pc = "lock" /\ th'[t].pc # "lock") =>
               /\ m = {}
               /\ Len(zw') = Len(zw) + 1
               /\ zw'[Len(zw')].i = EntryOf(t)
               /\ zw'[Len(zw')].raw = (th[t].route = "raw")
               /\ t \in m' \/ th'[t].pc \in {"none", "done"}
          /\ (t \in m /\ t \notin m' /\ th[t].pc = "copy") =>
               th'[t].pc \in {"none", "done"}
          /\ (th[t].pc = "copy" /\ th'[t].pc = "copy") => t \in m']_vars

\* one Archive with a pool has emitted an entry raw and another regular
\* file, of the same method, the conventional way
C33_Witness ==
  /\ apc = "done"
  /\ aret = "nil"
  /\ aopt.method = Deflate
  /\ \E k, j \in DOMAIN zw :
        /\ zw[k].raw
        /\ zw[j].type = "reg"
        /\ ~zw[j].raw

\* the entries of a zip file, whatever their order
EntrySet(q) == {q[i] : i \in DOMAIN q}

\* the locations of a path and of the directories above it
Ancestors(path) == {SubSeq(path, 1, k) : k \in 1..Len(path)}

\* the tree a set S of entries describes on the empty extraction root: each
\* entry with its type, content, mode and time, and the directories above
\* them that no entry names as Extract makes them
ExpectedTree(S) ==
  LET locs == DOMAIN EmptyDisk \cup UNION {Ancestors(EntryPath(e)) : e \in S}
  IN [loc \in locs |->
       IF \E e \in S : EntryPath(e) = loc
       THEN LET e == CHOOSE x \in S : EntryPath(x) = loc
            IN [kind |-> IF e.type = "dir" THEN "dir" ELSE "file",
                perm |-> e.perm, mtime |-> e.modified, body |-> e.body,
                link |-> <<>>]
       ELSE Node("dir", DirPerm)]

\* only directories and regular files, names pairwise distinct and inside
\* the extraction root
TreeOnly(q) ==
  /\ \A i \in DOMAIN q : q[i].type \in {"dir", "reg"} /\ InsideExtractRoot(EntryPath(q[i]))
  /\ \A i, j \in DOMAIN q : i # j => q[i].name # q[j].name

\* no regular file has the name of a directory another entry needs
NoFileAbove(q) ==
  \A i, j \in DOMAIN q :
    (i # j /\ q[i].type = "reg") => ~IsWithin(EntryPath(q[i]), EntryPath(q[j]))

\* C34 as stated: for a zip file of directories and regular files with
\* pairwise distinct names inside the root, an Extract nobody cancels
\* returns nil and leaves the tree of its set of entries, whatever their
\* order.
C34_Original ==
  (Extracted /\ ~ctx.parent /\ TreeOnly(zr)) =>
    (eret = "nil" /\ fs = ExpectedTree(EntrySet(zr)))

\* C34, amended: the same, for the zip files in which no regular file's
\* name is a leading part of another entry's name; for the others Extract
\* returns an error in every order.
C34_AnyOrder ==
  (Extracted /\ ~ctx.parent /\ TreeOnly(zr)) =>
    IF NoFileAbove(zr)
    THEN eret = "nil" /\ fs = ExpectedTree(EntrySet(zr))
    ELSE eret # "nil"

\* a zip file that lists a file before the directory it lies in, and that
\* before the directory above, has been extracted to the tree of its entries
C34_Witness ==
  /\ Extracted
  /\ eret = "nil"
  /\ Len(zr) = 3
  /\ zr[1].name = <<"d", "s", "g">>
  /\ zr[2].name = <<"d", "s">>
  /\ zr[3].name = <<"d">>
  /\ fs = ExpectedTree(EntrySet(zr))
  /\ fs[<<"c", "d">>].mtime = 2

\* C35: under fair scheduling every Archive call that has begun returns;
\* while its pool is open every buffer is either with one worker or once in
\* the limiter, and when the call returns all of them are back; a worker
\* that waits for a buffer does not hold the mutex; and every worker that
\* waits for a buffer or for the mutex gets past it.
C35_Terminates ==
  /\ (apc = "loop") ~> (apc = "done")
  /\ \A t \in 1..MaxFiles :
       (t \in DOMAIN th /\ th[t].pc \in {"get", "lock"}) ~>
         (t \in DOMAIN th /\ th[t].pc \in {"copy", "done"})
  /\ []((fp.active /\ ~fp.closed) =>
          /\ \A t, u \in Holders : th[t].buf = th[u].buf => t = u
          /\ OnLoan \cap Free = {}
          /\ OnLoan \cup Free = DOMAIN fp.files
          /\ Len(fp.limiter) = Cardinality(Free))
  /\ [](\A t \in DOMAIN th : th[t].pc = "get" => (t \notin m /\ th[t].buf = 0))
  /\ [](apc = "done" =>
          /\ \A t \in DOMAIN th : th[t].pc \in {"none", "done"} /\ th[t].buf = 0
          /\ m = {}
          /\ fp.active => (Len(fp.limiter) = Len(fp.files) /\ Free = DOMAIN fp.files))

\* a call with three workers and two buffers has returned nil: one worker
\* had to wait for a buffer that another put back
C35_Witness ==
  /\ apc = "done"
  /\ aret = "nil"
  /\ Len(fp.files) = 2
  /\ Cardinality({t \in DOMAIN th : t # 0 /\ th[t].pc = "done"}) = 3

\* C36: under fair scheduling an Extract call that is in its first loop,
\* waiting for a permit or not, returns; the permits taken are those of the
\* workers that have not returned, a worker gives its own back in the step
\* in which it returns, with or without an error, and when Extract returns
\* none is taken.
C36_Terminates ==
  /\ (epc \in {"phase1", "acquire"}) ~> (epc = "done")
  /\ [](epc \notin {"off", "invalid", "idle"} => Cardinality(LiveWorkers) = limiter)
  /\ [][\A i \in DOMAIN ew \cap DOMAIN ew' :
          (ew[i].pc \notin {"none", "done"} /\ ew'[i].pc = "done")
            => limiter' = limiter - 1]_vars
  /\ [](epc = "done" => (limiter = 0 /\ LiveWorkers = {}))

\* with one permit, a worker has failed and the worker started after it,
\* with the permit it gave back, has returned too; Extract has returned
C36_Witness ==
  /\ epc = "done"
  /\ eopt.concurrency = 1
  /\ \E i, j \in DOMAIN ew :
        /\ i < j
        /\ ew[i].pc = "done" /\ ew[i].err # "nil"
        /\ ew[j].pc = "done"

\* C37: the pool of an Archive call is closed only by the returning call,
\* in a step in which every worker has returned and every buffer is back in
\* the pool, whatever the loop ended with; from then on no worker takes a
\* step and the pool is not touched.
C37_CloseAfterWorkers ==
  /\ [](fp.closed =>
          /\ aret # "none"
          /\ \A t \in Workers : th[t].pc \in {"none", "done"} /\ th[t].buf = 0
          /\ Len(fp.limiter) = Len(fp.files)
          /\ Free = DOMAIN fp.files)
  /\ [][(~fp.closed /\ fp'.closed) =>
          /\ apc = "return" /\ apc' = "done"
          /\ AllWorkersDone
          /\ Holders = {}]_vars
  /\ [][fp.closed => (th' = th /\ fp' = fp)]_vars

\* the loop has ended early, on a key outside the chroot, with two workers
\* started; both have returned, one of them without an error, the pool has
\* every buffer and is closed
C37_Witness ==
  /\ fp.closed
  /\ aerr = "outside"
  /\ Cardinality({t \in Workers : th[t].pc = "done"}) >= 2
  /\ \E t \in Workers : th[t].pc = "done" /\ th[t].err = "nil"
  /\ Free = DOMAIN fp.files

\* the names a call writes for its mapping, whatever its concurrency: the
\* cleaned key relative to the chroot, for every key that is not irregular
ExpectedNames ==
  {Rel(Chroot, Abs(k)) : k \in {o \in files : ~IsIrregular(SourceFile(o))}}

\* C38: an Archive call that has returned nil has written, for every key
\* that is not irregular, exactly one entry, under the key's name, and no
\* other entry; a regular file's entry is either the raw one or the
\* conventional one, and the names are those of the mapping alone, the same
\* for every concurrency.
C38_OneEntryPerKey ==
  ArchiveSucceeded =>
    /\ \A i \in DOMAIN names :
         Cardinality({j \in DOMAIN zw : zw[j].i = i})
           = IF IsIrregular(SourceFile(names[i])) THEN 0 ELSE 1
    /\ \A j \in DOMAIN zw :
         /\ zw[j].i \in DOMAIN names
         /\ zw[j].name = Rel(Chroot, Abs(names[zw[j].i]))
         /\ zw[j].type = SourceFile(names[zw[j].i]).type
    /\ {zw[j].name : j \in DOMAIN zw} = ExpectedNames
    /\ Len(zw) = Cardinality(files) - Cardinality({k \in files : IsIrregular(SourceFile(k))})

\* a call with the pool has returned nil; of two regular files one went in
\* raw and the other, which deflate would have inflated, as a conventional
\* Store entry
C38_Witness ==
  /\ ArchiveSucceeded
  /\ fp.active
  /\ aopt.method = Deflate
  /\ \E j, k \in DOMAIN zw :
        /\ zw[j].type = "reg" /\ zw[j].raw
        /\ zw[k].type = "reg" /\ ~zw[k].raw /\ zw[k].usize > 0 /\ zw[k].method = Store

\* the keys of the call that sort before names[i] and are a directory's or a
\* symlink's
LinksAndDirsBefore(i) ==
  {o \in DOMAIN names :
     /\ StringLess(PathString(names[o]), PathString(names[i]))
     /\ SourceFile(names[o]).type \in {"dir", "sym"}}

\* C39: at every moment of an Archive call, the entry of a directory or of
\* a symlink stands in the stream before every entry of a greater key, and
\* it is there as soon as any entry of a greater key is; an entry that
\* stands behind one of a greater key is a regular file's.
C39_DirsAndLinksInOrder ==
  (apc \notin {"foreign", "new", "invalid", "idle"}) =>
    /\ \A j, k \in DOMAIN zw :
         (zw[j].type \in {"dir", "sym"} /\ KeyLess(j, k)) => j < k
    /\ \A k \in DOMAIN zw :
         \A o \in LinksAndDirsBefore(zw[k].i) :
           \E j \in 1..(k - 1) : zw[j].i = o
    /\ \A j, k \in DOMAIN zw :
         (j < k /\ KeyLess(k, j)) => (zw[k].type = "reg" /\ zw[k].i \in Workers)

\* a worker has written the entry of its regular file behind the entry of
\* a symlink whose key is greater
C39_Witness ==
  /\ apc \in {"loop", "create", "return", "done"}
  /\ \E j, k \in DOMAIN zw :
        /\ j < k
        /\ KeyLess(k, j)
        /\ zw[j].type = "sym"
        /\ zw[k].type = "reg"

\* C40 as stated: once the context of a running Archive call is cancelled
\* no entry header is written to the stream any more.
C40_Original ==
  [][(Cancelled /\ aret = "none" /\ apc # "foreign") => Len(zw') = Len(zw)]_vars

\* C40, amended: once the context is cancelled, the loop's look at the
\* context starts no entry and no worker, and no payload is written; a header
\* is still written by a thread that is past its last look at the context:
\* the loop in the iteration it had begun, a thread that waits for the mutex
\* with its file staged.
C40_AfterCancel ==
  /\ [][(Cancelled /\ apc = "loop") =>
          /\ apc' \in {"loop", "return"}
          /\ \A t \in DOMAIN th \cap DOMAIN th' :
               th[t].pc = "none" => th'[t].pc = "none"]_vars
  /\ [][(Cancelled /\ aret = "none" /\ apc # "foreign" /\ Len(zw') > Len(zw)) =>
          /\ Len(zw') = Len(zw) + 1
          /\ \/ apc = "create" /\ apc' # "create" /\ zw'[Len(zw')].i = ai
             \/ \E t \in DOMAIN th :
                  /\ th[t].pc = "lock" /\ th'[t].pc # "lock"
                  /\ zw'[Len(zw')].i = EntryOf(t)]_vars
  /\ [][(Cancelled /\ aret = "none") => PayloadBlocks(zw') = PayloadBlocks(zw)]_vars

\* a worker held the mutex from its header to the write that the cancelled
\* context refused, and the header of another regular file stands behind
\* its entry: that one was written after the cancellation
C40_Witness ==
  /\ fp.active
  /\ \E j, k \in DOMAIN zw :
        /\ j < k
        /\ zw[j].i \in Workers
        /\ th[zw[j].i].pc = "done" /\ th[zw[j].i].err = "canceled"
        /\ zw[k].type = "reg"

====
